---- MODULE Spec2Model ----
(***************************************************************************)
(* A model of the FoxPro DBF/FPT reader (package dbf, reader.go): the      *)
(* record cursor, the raw record / field reads against the byte source,    *)
(* the field value decoder and the memo block resolver.                    *)
(*                                                                         *)
(* Bytes are integers 0..255, byte slices are sequences of bytes.  Go's    *)
(* int64 is modelled at a reduced width (IntBits) with the same wrapping   *)
(* two's-complement arithmetic; uint32 record numbers stay below the       *)
(* largest int64, as they do in the program.                               *)
(***************************************************************************)
EXTENDS Integers, Sequences, FiniteSets, TLC

\* ---------------------------------------------------------------- bounds
\* Largest record count (header.NumRec) of the tables explored.
MaxRec == 2
\* Width in bits of the scaled-down int64 used by Skip.
IntBits == 4

\* ------------------------------------------------------ program constants
FlagActive == 32
FlagDeleted == 42
HeaderBase == 296
DescLen == 32
MemoFlag == 2

\* ------------------------------------------------------------ arithmetic
RECURSIVE Pow2(_)
Pow2(n) == IF n = 0 THEN 1 ELSE 2 * Pow2(n - 1)

Int64Min == 0 - Pow2(IntBits - 1)
Int64Max == Pow2(IntBits - 1) - 1

\* Go's int64 addition: the sum wraps around modulo 2^IntBits.
WrapInt64(x) == ((x - Int64Min) % Pow2(IntBits)) + Int64Min

\* Go's integer division truncates toward zero.
GoDiv(a, b) ==
    IF (a >= 0) = (b > 0) \/ a = 0
    THEN (IF a >= 0 THEN a ELSE 0 - a) \div (IF b > 0 THEN b ELSE 0 - b)
    ELSE 0 - ((IF a >= 0 THEN a ELSE 0 - a) \div (IF b > 0 THEN b ELSE 0 - b))

Min(a, b) == IF a < b THEN a ELSE b

\* The element of a one-element set.  A value a method computes once and then
\* uses several times (a local variable) is bound as x \in {e}.
Only(S) == CHOOSE x \in S : TRUE

\* The bytes of a 64-bit word: the model scales the 8 bytes of the program
\* down, so that every value of a word stays a small number.
WordLen == 2

\* binary.LittleEndian.Uint32 / Uint64 of the first n bytes of raw.
RECURSIVE LEUint(_, _)
LEUint(raw, n) ==
    IF n = 0 THEN 0 ELSE raw[1] + 256 * LEUint(Tail(raw), n - 1)

\* binary.BigEndian.Uint32 of the first n bytes of raw.
RECURSIVE BEUint(_, _)
BEUint(raw, n) ==
    IF n = 0 THEN 0 ELSE raw[n] + 256 * BEUint(raw, n - 1)

\* ------------------------------------------------------------------ values
\* A decoded field value (Go interface{}): its dynamic type and its content.
Val(k, v) == [kind |-> k, val |-> v]
NilVal == Val("nil", <<>>)
\* time.Time{}: January 1, year 1, 00:00:00 UTC.
ZeroTime == Val("time", <<1, 1, 1, 0>>)

\* ------------------------------------------------------------ text decoder
IsCont(b) == b >= 128 /\ b <= 191

\* utf8.Valid
RECURSIVE utf8Valid(_)
utf8Valid(s) ==
    IF s = <<>> THEN TRUE
    ELSE LET b == s[1]
             n == Len(s)
         IN IF b < 128 THEN utf8Valid(Tail(s))
            ELSE IF b >= 194 /\ b <= 223
            THEN n >= 2 /\ IsCont(s[2]) /\ utf8Valid(SubSeq(s, 3, n))
            ELSE IF b >= 224 /\ b <= 239
            THEN /\ n >= 3
                 /\ s[2] >= (IF b = 224 THEN 160 ELSE 128)
                 /\ s[2] <= (IF b = 237 THEN 159 ELSE 191)
                 /\ IsCont(s[3])
                 /\ utf8Valid(SubSeq(s, 4, n))
            ELSE IF b >= 240 /\ b <= 244
            THEN /\ n >= 4
                 /\ s[2] >= (IF b = 240 THEN 144 ELSE 128)
                 /\ s[2] <= (IF b = 244 THEN 143 ELSE 191)
                 /\ IsCont(s[3])
                 /\ IsCont(s[4])
                 /\ utf8Valid(SubSeq(s, 5, n))
            ELSE FALSE

\* charmap.Windows1250: the code point of a byte.  Only the entries for the
\* bytes that occur in the tables explored are listed.
Win1250Rune(b) ==
    IF b < 128 THEN b
    ELSE IF b = 196 THEN 196
    ELSE IF b = 233 THEN 233
    ELSE IF b = 245 THEN 337
    ELSE IF b = 255 THEN 729
    ELSE 65533

EncodeRune(r) ==
    IF r < 128 THEN <<r>>
    ELSE IF r < 2048 THEN <<192 + (r \div 64), 128 + (r % 64)>>
    ELSE <<224 + (r \div 4096), 128 + ((r \div 64) % 64), 128 + (r % 64)>>

RECURSIVE Win1250Transform(_)
Win1250Transform(s) ==
    IF s = <<>> THEN <<>>
    ELSE EncodeRune(Win1250Rune(s[1])) \o Win1250Transform(Tail(s))

\* Decoder.Decode for the three decoders of the package.
Decode(d, in) ==
    CASE d = "Win1250Decoder" ->
            IF utf8Valid(in) THEN [out |-> in, err |-> "nil"]
            ELSE [out |-> Win1250Transform(in), err |-> "nil"]
      [] d = "UTF8Decoder" -> [out |-> in, err |-> "nil"]
      [] d = "UTF8Validator" ->
            IF utf8Valid(in) THEN [out |-> in, err |-> "nil"]
            ELSE [out |-> <<>>, err |-> "ErrInvalidUTF8"]

\* ------------------------------------------------------- numeric parsing
IsSpace(b) == b \in {9, 10, 11, 12, 13, 32}
IsDigit(b) == b >= 48 /\ b <= 57

RECURSIVE TrimLeft(_)
TrimLeft(s) == IF s # <<>> /\ IsSpace(s[1]) THEN TrimLeft(Tail(s)) ELSE s

RECURSIVE TrimRight(_)
TrimRight(s) ==
    IF s # <<>> /\ IsSpace(s[Len(s)]) THEN TrimRight(SubSeq(s, 1, Len(s) - 1)) ELSE s

\* strings.TrimSpace (the white space of the ASCII range)
TrimSpace(s) == TrimRight(TrimLeft(s))

AllDigits(s) == \A i \in 1..Len(s) : IsDigit(s[i])

RECURSIVE DigitsValue(_)
DigitsValue(s) ==
    IF s = <<>> THEN 0 ELSE 10 * DigitsValue(SubSeq(s, 1, Len(s) - 1)) + (s[Len(s)] - 48)

HasSign(s) == s # <<>> /\ s[1] \in {43, 45}
Unsigned(s) == IF HasSign(s) THEN Tail(s) ELSE s
SignOf(s) == IF s # <<>> /\ s[1] = 45 THEN 0 - 1 ELSE 1

\* strconv.ParseInt(s, 10, 64); the fields explored are a few digits wide, so
\* the value always fits 64 bits.
ParseInt(s) ==
    LET u == Unsigned(s)
    IN IF u # <<>> /\ AllDigits(u)
       THEN [val |-> Val("int64", <<SignOf(s) * DigitsValue(u)>>), err |-> "nil"]
       ELSE [val |-> Val("int64", <<0>>), err |-> "ErrSyntax"]

DotAt(s) == IF \E i \in 1..Len(s) : s[i] = 46
            THEN CHOOSE i \in 1..Len(s) : s[i] = 46 /\ \A j \in 1..(i - 1) : s[j] # 46
            ELSE 0

RECURSIVE StripZeros(_)
StripZeros(s) ==
    IF s # <<>> /\ s[Len(s)] = 48 THEN StripZeros(SubSeq(s, 1, Len(s) - 1)) ELSE s

\* strconv.ParseFloat(s, 64) on plain decimal text ([sign] digits [. digits]);
\* the value is kept exactly, as <<mantissa, number of decimals>>.
ParseFloat(s) ==
    LET u == Unsigned(s)
        d == DotAt(u)
        ip == IF d = 0 THEN u ELSE SubSeq(u, 1, d - 1)
        fp == IF d = 0 THEN <<>> ELSE StripZeros(SubSeq(u, d + 1, Len(u)))
        raw == IF d = 0 THEN <<>> ELSE SubSeq(u, d + 1, Len(u))
    IN IF AllDigits(ip) /\ AllDigits(raw) /\ Len(ip) + Len(raw) > 0
       THEN [val |-> Val("float64", <<SignOf(s) * DigitsValue(ip \o fp), Len(fp)>>),
             err |-> "nil"]
       ELSE [val |-> Val("float64", <<0, 0>>), err |-> "ErrSyntax"]

\* parseNumericInt that does not trim the text.
parseNumericInt_NoTrim(raw) ==
    IF Len(raw) = 0 THEN [val |-> Val("int64", <<0>>), err |-> "nil"]
    ELSE ParseInt(raw)

parseNumericInt(raw) ==
    LET trimmed == TrimSpace(raw)
    IN IF Len(trimmed) = 0 THEN [val |-> Val("int64", <<0>>), err |-> "nil"]
       ELSE ParseInt(trimmed)

parseFloat(raw) ==
    LET trimmed == TrimSpace(raw)
    IN IF Len(trimmed) = 0 THEN [val |-> Val("float64", <<0, 0>>), err |-> "nil"]
       ELSE ParseFloat(TrimSpace(trimmed))

\* ----------------------------------------------------------------- dates
IsLeap(y) == (y % 4 = 0 /\ y % 100 # 0) \/ y % 400 = 0
DaysIn(y, m) ==
    IF m = 2 THEN (IF IsLeap(y) THEN 29 ELSE 28)
    ELSE IF m \in {4, 6, 9, 11} THEN 30 ELSE 31

\* time.Parse("20060102", s)
parseDate(raw) ==
    IF raw = <<32, 32, 32, 32, 32, 32, 32, 32>> THEN [val |-> ZeroTime, err |-> "nil"]
    ELSE IF Len(raw) = 8 /\ AllDigits(raw)
    THEN LET y == DigitsValue(SubSeq(raw, 1, 4))
             m == DigitsValue(SubSeq(raw, 5, 6))
             d == DigitsValue(SubSeq(raw, 7, 8))
         IN IF m >= 1 /\ m <= 12 /\ d >= 1 /\ d <= DaysIn(y, m)
            THEN [val |-> Val("time", <<y, m, d, 0>>), err |-> "nil"]
            ELSE [val |-> ZeroTime, err |-> "ErrParseTime"]
    ELSE [val |-> ZeroTime, err |-> "ErrParseTime"]

\* jd.J2YMD
J2YMD(d) ==
    LET l1 == d + 68569
        n == GoDiv(4 * l1, 146097)
        l2 == l1 - GoDiv(146097 * n + 3, 4)
        i1 == GoDiv(4000 * (l2 + 1), 1461001)
        l3 == l2 - GoDiv(1461 * i1, 4) + 31
        j1 == GoDiv(80 * l3, 2447)
        k == l3 - GoDiv(2447 * j1, 80)
        l4 == GoDiv(j1, 11)
        j2 == j1 + 2 - 12 * l4
        i2 == 100 * (n - 49) + i1 + l4
    IN <<i2, j2, k>>

\* jd.YMD2J
YMD2J(i, j, k) ==
    k - 32075 + GoDiv(1461 * (i + 4800 + GoDiv(j - 14, 12)), 4)
      + GoDiv(367 * (j - 2 - GoDiv(j - 14, 12) * 12), 12)
      - GoDiv(3 * GoDiv(i + 4900 + GoDiv(j - 14, 12), 100), 4)

parseDateTime_Strict(raw) ==
    IF Len(raw) # 8 THEN [val |-> ZeroTime, err |-> "ErrInvalidField"]
    ELSE LET julDat == LEUint(SubSeq(raw, 1, 4), 4)
             mSec == LEUint(SubSeq(raw, 5, 8), 4)
             ymd == J2YMD(julDat)
         IN IF ymd[1] < 0 \/ ymd[1] > 9999 THEN [val |-> ZeroTime, err |-> "ErrInvalidField"]
            ELSE LET n == J2YMD(julDat + (mSec \div 86400000))
                 IN [val |-> Val("time", <<n[1], n[2], n[3], mSec % 86400000>>),
                     err |-> "nil"]

\* time.Date normalises a nanosecond count of a day or more into later days.
parseDateTime(raw) ==
    IF Len(raw) # 8 THEN [val |-> ZeroTime, err |-> "ErrInvalidField"]
    ELSE LET julDat == LEUint(SubSeq(raw, 1, 4), 4)
             mSec == LEUint(SubSeq(raw, 5, 8), 4)
             ymd == J2YMD(julDat)
         IN IF ymd[1] < 0 \/ ymd[1] > 9999 THEN [val |-> ZeroTime, err |-> "nil"]
            ELSE LET n == J2YMD(julDat + (mSec \div 86400000))
                 IN [val |-> Val("time", <<n[1], n[2], n[3], mSec % 86400000>>),
                     err |-> "nil"]

\* ------------------------------------------------------------------ state
VARIABLES
    header,      \* DBF.header: FileVersion, NumRec, FirstRec, RecLen, TableFlags
    fields,      \* DBF.fields: the field descriptors, in file order
    dec,         \* DBF.dec: the text decoder given at open time
    r,           \* DBF.r: the primary byte source (the bytes from FirstRec on)
    fptheader,   \* DBF.fptheader: BlockSize
    fptr,        \* DBF.fptr: the memo byte source and its read offset
    recpointer,  \* DBF.recpointer
    row,         \* the *Record the caller got from the last Record / RecordAt
    ret,         \* the last call: operation, arguments, cursor before, results
    rlog,        \* the ReadAt calls the last call made on the primary source
    pc,          \* position of the README scan loop
    scanned,     \* record numbers the scan loop has read, in order
    probe,       \* what the caller noted of its first RecordAt / DeletedAt call
    heap,        \* the byte buffers (make([]byte, n)) a value held by the caller refers to
    held,        \* the first *Record the caller was given, and what it read in it then
    disk,        \* the files on disk: the table file and its memo file
    validFileVersionFunc,  \* the file-version check in force in the process
    handles,     \* the os.File handles opened so far
    dbf_f,       \* DBF.f: the handle of the table file, 0 for nil
    dbf_fptf,    \* DBF.fptf: the handle of the memo file, 0 for nil
    inst,        \* the *DBF the caller got from the last open: "nil" or "open"
    olog,        \* the reads the last open made on the primary source
    calls        \* the RecordAt calls in progress on the table, per goroutine

\* What the caller keeps beside the table.
env == <<disk, validFileVersionFunc, handles, dbf_f, dbf_fptf, inst, olog, calls>>

aux == <<probe, heap, held, env>>

vars == <<header, fields, dec, r, fptheader, fptr, recpointer, row, ret, rlog,
          pc, scanned, aux>>

NilRow == [nil |-> TRUE, Deleted |-> FALSE, data |-> <<>>]
NilMap == [nil |-> TRUE, kv |-> <<>>]

\* DBF.NumFields
NumFields == Len(fields)

\* DBF.NumRecords
NumRecords == header.NumRec

DBFHeader_NumFields_NoBase(h) == (h.FirstRec % Pow2(16)) \div DescLen

\* DBFHeader.NumFields: uint16((h.FirstRec - 296) / 32), the subtraction in
\* 16-bit unsigned arithmetic.
DBFHeader_NumFields(h) == ((h.FirstRec - HeaderBase) % Pow2(16)) \div DescLen

\* ----------------------------------------------------------- byte sources
\* ReadAt of the primary source (bytes.Reader / os.File): n bytes at file
\* offset pos; fewer than n bytes come with io.EOF.
ReadAt(n, pos) ==
    LET rel == pos - header.FirstRec
        size == Len(r.data)
    IN IF rel >= size THEN [n |-> 0, err |-> "io.EOF", buf |-> [i \in 1..n |-> 0]]
       ELSE LET k == Min(n, size - rel)
            IN [n |-> k,
                err |-> IF k < n THEN "io.EOF" ELSE "nil",
                buf |-> [i \in 1..n |-> IF i <= k THEN r.data[rel + i] ELSE 0]]

\* Read of the memo source at offset pos (after Seek): at the end of the data
\* it returns 0 and io.EOF, otherwise the bytes that are left, up to n, and no
\* error.
FptRead(n, pos) ==
    LET size == Len(fptr.data)
    IN IF pos >= size
       THEN [n |-> 0, err |-> "io.EOF", buf |-> [i \in 1..n |-> 0], pos |-> pos]
       ELSE LET k == Min(n, size - pos)
            IN [n |-> k, err |-> "nil",
                buf |-> [i \in 1..n |-> IF i <= k THEN fptr.data[pos + i] ELSE 0],
                pos |-> pos + k]

\* ----------------------------------------------------- memo block resolver

\* readFPT that takes every block of length 0 for text.
readFPT_ZeroIsText(blockdata, fpos) ==
    IF ~fptr.present
    THEN [data |-> <<>>, isText |-> FALSE, err |-> "ErrNoFPTFile", pos |-> fpos]
    ELSE IF Len(blockdata) < 4
    THEN [data |-> <<>>, isText |-> FALSE, err |-> "panic", pos |-> fpos]
    ELSE Only({
        IF h.err # "nil"
        THEN [data |-> <<>>, isText |-> FALSE, err |-> h.err, pos |-> h.pos]
        ELSE Only({
            IF leng = 0
            THEN [data |-> <<>>, isText |-> TRUE, err |-> "nil", pos |-> h.pos]
            ELSE Only({
                IF b.err # "nil"
                THEN [data |-> b.buf, isText |-> FALSE, err |-> b.err, pos |-> b.pos]
                ELSE IF b.n # leng
                THEN [data |-> b.buf, isText |-> sign = 1, err |-> "ErrIncomplete",
                      pos |-> b.pos]
                ELSE [data |-> b.buf, isText |-> sign = 1, err |-> "nil", pos |-> b.pos]
                : b \in {FptRead(leng, h.pos)} })
            : sign \in {BEUint(SubSeq(h.buf, 1, 4), 4)},
              leng \in {BEUint(SubSeq(h.buf, 5, 8), 4)} })
        : h \in {FptRead(8, fptheader.BlockSize * LEUint(blockdata, 4))} })

\* DBF.readFPT; fpos is the offset the memo source is at before the call.
readFPT(blockdata, fpos) ==
    IF ~fptr.present
    THEN [data |-> <<>>, isText |-> FALSE, err |-> "ErrNoFPTFile", pos |-> fpos]
    ELSE IF Len(blockdata) < 4
    THEN [data |-> <<>>, isText |-> FALSE, err |-> "panic", pos |-> fpos]
    ELSE Only({
        IF h.err # "nil"
        THEN [data |-> <<>>, isText |-> FALSE, err |-> h.err, pos |-> h.pos]
        ELSE Only({
            IF leng = 0
            THEN [data |-> <<>>, isText |-> sign = 1, err |-> "nil", pos |-> h.pos]
            ELSE Only({
                IF b.err # "nil"
                THEN [data |-> b.buf, isText |-> FALSE, err |-> b.err, pos |-> b.pos]
                ELSE IF b.n # leng
                THEN [data |-> b.buf, isText |-> sign = 1, err |-> "ErrIncomplete",
                      pos |-> b.pos]
                ELSE [data |-> b.buf, isText |-> sign = 1, err |-> "nil", pos |-> b.pos]
                : b \in {FptRead(leng, h.pos)} })
            : sign \in {BEUint(SubSeq(h.buf, 1, 4), 4)},
              leng \in {BEUint(SubSeq(h.buf, 5, 8), 4)} })
        : h \in {FptRead(8, fptheader.BlockSize * LEUint(blockdata, 4))} })

\* DBF.parseMemo
parseMemo(raw, fpos) ==
    Only({
        IF m.err # "nil"
        THEN [data |-> <<>>, isText |-> FALSE, err |-> m.err, pos |-> m.pos]
        ELSE IF m.isText
        THEN Only({
            IF d.err # "nil"
            THEN [data |-> <<>>, isText |-> FALSE, err |-> d.err, pos |-> m.pos]
            ELSE [data |-> d.out, isText |-> TRUE, err |-> "nil", pos |-> m.pos]
            : d \in {Decode(dec, m.data)} })
        ELSE [data |-> m.data, isText |-> FALSE, err |-> "nil", pos |-> m.pos]
        : m \in {readFPT(raw, fpos)} })

\* DBF.toUTF8String
toUTF8String(raw) ==
    Only({
        IF d.err # "nil" THEN [val |-> Val("string", raw), err |-> d.err]
        ELSE [val |-> Val("string", d.out), err |-> "nil"]
        : d \in {Decode(dec, raw)} })

\* int32(binary.LittleEndian.Uint32(raw))
Int32LE(raw) ==
    raw[1] + 256 * raw[2] + 65536 * raw[3]
        + 16777216 * (IF raw[4] >= 128 THEN raw[4] - 256 ELSE raw[4])

RECURSIVE Normalize(_, _)
Normalize(m, d) ==
    IF d > 0 /\ m % 10 = 0 THEN Normalize(m \div 10, d - 1) ELSE <<m, d>>

Reverse(s) == [i \in 1..Len(s) |-> s[Len(s) + 1 - i]]

\* ---------------------------------------------------- field value decoder
\* DBF.fieldDataToValue; the result carries the offset the memo source is
\* left at.  err = "panic" stands for a run-time panic (index out of range).
fieldDataToValue(raw, fieldpos, fpos) ==
    IF fieldpos < 0 \/ Len(fields) < fieldpos
    THEN [val |-> NilVal, err |-> "ErrInvalidField", pos |-> fpos]
    ELSE IF fieldpos >= Len(fields)
    THEN [val |-> NilVal, err |-> "panic", pos |-> fpos]
    ELSE Only({
        CASE t = "M" ->
               Only({ [val |-> IF m.isText THEN Val("string", m.data)
                                           ELSE Val("bytes", m.data),
                       err |-> m.err, pos |-> m.pos]
                      : m \in {parseMemo(raw, fpos)} })
          [] t = "C" -> toUTF8String(raw) @@ [pos |-> fpos]
          [] t = "I" ->
               IF Len(raw) < 4 THEN [val |-> NilVal, err |-> "panic", pos |-> fpos]
               ELSE [val |-> Val("int32", <<Int32LE(raw)>>), err |-> "nil", pos |-> fpos]
          [] t = "B" ->
               IF Len(raw) < 8 THEN [val |-> NilVal, err |-> "panic", pos |-> fpos]
               ELSE [val |-> Val("float64bits", Reverse(SubSeq(raw, 1, 8))),
                     err |-> "nil", pos |-> fpos]
          [] t = "D" -> parseDate(raw) @@ [pos |-> fpos]
          [] t = "T" -> parseDateTime(raw) @@ [pos |-> fpos]
          [] t = "L" ->
               [val |-> Val("bool", <<IF raw = <<84>> THEN 1 ELSE 0>>),
                err |-> "nil", pos |-> fpos]
          [] t = "V" -> [val |-> Val("bytes", raw), err |-> "nil", pos |-> fpos]
          [] t = "Y" ->
               IF Len(raw) < WordLen THEN [val |-> NilVal, err |-> "panic", pos |-> fpos]
               ELSE [val |-> Val("float64", Normalize(LEUint(raw, WordLen), 4)),
                     err |-> "nil", pos |-> fpos]
          [] t = "N" /\ decimals = 0 -> parseNumericInt(raw) @@ [pos |-> fpos]
          [] t = "F" \/ (t = "N" /\ decimals # 0) -> parseFloat(raw) @@ [pos |-> fpos]
          [] OTHER -> [val |-> NilVal, err |-> "ErrUnsupportedFieldtype", pos |-> fpos]
        : t \in {fields[fieldpos + 1].Type}, decimals \in {fields[fieldpos + 1].Decimals} })

\* readField that reads at the start of the record.
readField_NoPos(recordpos, fieldpos) ==
    IF recordpos >= header.NumRec
    THEN [buf |-> <<>>, err |-> "ErrEOF", log |-> <<>>]
    ELSE IF fieldpos < 0 \/ fieldpos > NumFields
    THEN [buf |-> <<>>, err |-> "ErrInvalidField", log |-> <<>>]
    ELSE IF fieldpos >= Len(fields)
    THEN [buf |-> <<>>, err |-> "panic", log |-> <<>>]
    ELSE Only({
        Only({
            IF rd.err # "nil"
            THEN [buf |-> rd.buf, err |-> rd.err, log |-> << <<pos, f.Len>> >>]
            ELSE IF rd.n # f.Len
            THEN [buf |-> rd.buf, err |-> "ErrIncomplete", log |-> << <<pos, f.Len>> >>]
            ELSE [buf |-> rd.buf, err |-> "nil", log |-> << <<pos, f.Len>> >>]
            : rd \in {ReadAt(f.Len, pos)} })
        : f \in {fields[fieldpos + 1]},
          pos \in {header.FirstRec + (recordpos * header.RecLen)} })

\* ------------------------------------------------------------ raw reads
\* DBF.readField: the raw bytes of one field, the error, and the ReadAt
\* calls made (<<offset, length>>).
readField(recordpos, fieldpos) ==
    IF recordpos >= header.NumRec
    THEN [buf |-> <<>>, err |-> "ErrEOF", log |-> <<>>]
    ELSE IF fieldpos < 0 \/ fieldpos > NumFields
    THEN [buf |-> <<>>, err |-> "ErrInvalidField", log |-> <<>>]
    ELSE IF fieldpos >= Len(fields)
    THEN [buf |-> <<>>, err |-> "panic", log |-> <<>>]
    ELSE Only({
        Only({
            IF rd.err # "nil"
            THEN [buf |-> rd.buf, err |-> rd.err, log |-> << <<pos, f.Len>> >>]
            ELSE IF rd.n # f.Len
            THEN [buf |-> rd.buf, err |-> "ErrIncomplete", log |-> << <<pos, f.Len>> >>]
            ELSE [buf |-> rd.buf, err |-> "nil", log |-> << <<pos, f.Len>> >>]
            : rd \in {ReadAt(f.Len, pos)} })
        : f \in {fields[fieldpos + 1]},
          pos \in {header.FirstRec + (recordpos * header.RecLen)
                       + fields[fieldpos + 1].Pos} })

\* readRecord without its bounds check.
readRecord_NoBounds(recordpos) ==
    Only({
        Only({
            IF rd.err # "nil"
            THEN [buf |-> rd.buf, err |-> rd.err, log |-> << <<pos, header.RecLen>> >>]
            ELSE IF rd.n # header.RecLen
            THEN [buf |-> rd.buf, err |-> "ErrIncomplete",
                  log |-> << <<pos, header.RecLen>> >>]
            ELSE [buf |-> rd.buf, err |-> "nil", log |-> << <<pos, header.RecLen>> >>]
            : rd \in {ReadAt(header.RecLen, pos)} })
        : pos \in {header.FirstRec + (recordpos * header.RecLen)} })

\* DBF.readRecord
readRecord(recordpos) ==
    IF recordpos >= header.NumRec
    THEN [buf |-> <<>>, err |-> "ErrEOF", log |-> <<>>]
    ELSE Only({
        Only({
            IF rd.err # "nil"
            THEN [buf |-> rd.buf, err |-> rd.err, log |-> << <<pos, header.RecLen>> >>]
            ELSE IF rd.n # header.RecLen
            THEN [buf |-> rd.buf, err |-> "ErrIncomplete",
                  log |-> << <<pos, header.RecLen>> >>]
            ELSE [buf |-> rd.buf, err |-> "nil", log |-> << <<pos, header.RecLen>> >>]
            : rd \in {ReadAt(header.RecLen, pos)} })
        : pos \in {header.FirstRec + (recordpos * header.RecLen)} })

\* DeletedAt that takes every record not flagged active for deleted.
DeletedAt_NotActive(recordpos) ==
    IF recordpos >= header.NumRec
    THEN [b |-> FALSE, err |-> "ErrEOF", log |-> <<>>]
    ELSE Only({
        Only({
            IF rd.err # "nil" THEN [b |-> FALSE, err |-> rd.err, log |-> << <<pos, 1>> >>]
            ELSE IF rd.n # 1
            THEN [b |-> FALSE, err |-> "ErrIncomplete", log |-> << <<pos, 1>> >>]
            ELSE [b |-> rd.buf[1] # FlagActive, err |-> "nil", log |-> << <<pos, 1>> >>]
            : rd \in {ReadAt(1, pos)} })
        : pos \in {header.FirstRec + (recordpos * header.RecLen)} })

\* DBF.DeletedAt
DeletedAt(recordpos) ==
    IF recordpos >= header.NumRec
    THEN [b |-> FALSE, err |-> "ErrEOF", log |-> <<>>]
    ELSE Only({
        Only({
            IF rd.err # "nil" THEN [b |-> FALSE, err |-> rd.err, log |-> << <<pos, 1>> >>]
            ELSE IF rd.n # 1
            THEN [b |-> FALSE, err |-> "ErrIncomplete", log |-> << <<pos, 1>> >>]
            ELSE [b |-> rd.buf[1] = FlagDeleted, err |-> "nil", log |-> << <<pos, 1>> >>]
            : rd \in {ReadAt(1, pos)} })
        : pos \in {header.FirstRec + (recordpos * header.RecLen)} })

\* The field loop of DBF.bytesToRecord from field index i on: vals is
\* rec.data so far, offset the position in data (0-based).
RECURSIVE decodeFields(_, _, _, _, _, _)
decodeFields(data, deleted, i, offset, vals, fpos) ==
    IF i >= Len(vals)
    THEN [row |-> [nil |-> FALSE, Deleted |-> deleted, data |-> vals],
          err |-> "nil", pos |-> fpos]
    ELSE IF offset + fields[i + 1].Len > Len(data)
    THEN [row |-> NilRow, err |-> "panic", pos |-> fpos]
    ELSE Only({
        IF v.err = "panic"
        THEN [row |-> NilRow, err |-> "panic", pos |-> v.pos]
        ELSE IF v.err # "nil"
        THEN [row |-> [nil |-> FALSE, Deleted |-> deleted, data |-> vals],
              err |-> v.err, pos |-> v.pos]
        ELSE Only({
            decodeFields(data, deleted, i + 1, next, filled, v.pos)
            : next \in {offset + fields[i + 1].Len},
              filled \in {[vals EXCEPT ![i + 1] = v.val]} })
        : v \in {fieldDataToValue(
                     SubSeq(data, offset + 1, offset + fields[i + 1].Len), i, fpos)} })

\* bytesToRecord without the check of the delete flag.
bytesToRecord_AnyFlag(data, fpos) ==
    IF Len(data) = 0 THEN [row |-> NilRow, err |-> "panic", pos |-> fpos]
    ELSE decodeFields(data, data[1] = FlagDeleted, 0, 1,
                      [i \in 1..NumFields |-> NilVal], fpos)

\* DBF.bytesToRecord
bytesToRecord(data, fpos) ==
    IF Len(data) = 0 THEN [row |-> NilRow, err |-> "panic", pos |-> fpos]
    ELSE IF data[1] # FlagDeleted /\ data[1] # FlagActive
    THEN [row |-> NilRow, err |-> "ErrInvalidRecordData", pos |-> fpos]
    ELSE decodeFields(data, data[1] = FlagDeleted, 0, 1,
                      [i \in 1..NumFields |-> NilVal], fpos)

\* RecordAt that takes nrec = 0 for the record under the cursor, as RecordToMap
\* does.
RecordAt_ZeroIsCursor(nrec, fpos) ==
    Only({
        IF rd.err # "nil"
        THEN [row |-> NilRow, err |-> rd.err, pos |-> fpos, log |-> rd.log]
        ELSE bytesToRecord(rd.buf, fpos) @@ [log |-> rd.log]
        : rd \in {readRecord(IF nrec = 0 THEN recpointer ELSE nrec)} })

\* DBF.Record / DBF.RecordAt: read the raw record, then decode it.
RecordAt(nrec, fpos) ==
    Only({
        IF rd.err # "nil"
        THEN [row |-> NilRow, err |-> rd.err, pos |-> fpos, log |-> rd.log]
        ELSE bytesToRecord(rd.buf, fpos) @@ [log |-> rd.log]
        : rd \in {readRecord(nrec)} })

\* DBF.Field with the record pointer at rp.
Field(rp, fieldpos, fpos) ==
    Only({
        IF rd.err # "nil"
        THEN [val |-> NilVal, err |-> rd.err, pos |-> fpos, log |-> rd.log]
        ELSE fieldDataToValue(rd.buf, fieldpos, fpos) @@ [log |-> rd.log]
        : rd \in {readField(rp, fieldpos)} })

\* DBF.FieldPos: the zero-based position of the first field of that name,
\* or -1.
FieldPos(fieldname) ==
    IF \E i \in 1..Len(fields) : fields[i].Name = fieldname
    THEN (CHOOSE i \in 1..Len(fields) :
              /\ fields[i].Name = fieldname
              /\ \A j \in 1..(i - 1) : fields[j].Name # fieldname) - 1
    ELSE 0 - 1

\* Record.Field
RecordField(rec, pos) ==
    IF pos < 0 \/ Len(rec.data) < pos
    THEN [val |-> Val("int", <<0>>), err |-> "ErrInvalidField"]
    ELSE IF pos >= Len(rec.data)
    THEN [val |-> NilVal, err |-> "panic"]
    ELSE [val |-> rec.data[pos + 1], err |-> "nil"]

\* ---------------------------------------------------------------- cursor
\* GoTo that takes recno = NumRec for a record.
GoTo_OffByOne(recno) ==
    IF recno > header.NumRec
    THEN [recpointer |-> header.NumRec, err |-> "ErrEOF"]
    ELSE [recpointer |-> recno, err |-> "nil"]

\* GoTo that reports the end of the table without clamping the pointer.
GoTo_NoClamp(recno) ==
    IF recno >= header.NumRec
    THEN [recpointer |-> recno, err |-> "ErrEOF"]
    ELSE [recpointer |-> recno, err |-> "nil"]

\* DBF.GoTo: the new record pointer and the error.
GoTo(recno) ==
    IF recno >= header.NumRec
    THEN [recpointer |-> header.NumRec, err |-> "ErrEOF"]
    ELSE [recpointer |-> recno, err |-> "nil"]

\* Skip that takes newval = NumRec for a record.
Skip_OffByOne(offset) ==
    LET newval == WrapInt64(recpointer + offset)
    IN IF newval > header.NumRec
       THEN [recpointer |-> header.NumRec, err |-> "ErrEOF"]
       ELSE IF newval < 0
       THEN [recpointer |-> 0, err |-> "ErrBOF"]
       ELSE [recpointer |-> newval, err |-> "nil"]

\* DBF.Skip
Skip(offset) ==
    LET newval == WrapInt64(recpointer + offset)
    IN IF newval >= header.NumRec
       THEN [recpointer |-> header.NumRec, err |-> "ErrEOF"]
       ELSE IF newval < 0
       THEN [recpointer |-> 0, err |-> "ErrBOF"]
       ELSE [recpointer |-> newval, err |-> "nil"]

\* EOF that holds only past the sentinel position.
EOF_Strict == recpointer > header.NumRec

\* DBF.EOF
EOF == recpointer >= header.NumRec

\* DBF.BOF
BOF == recpointer = 0

\* ------------------------------------------------------------ projection
\* The loop of DBF.RecordToMap from field index i on, the pointer at rp.
RECURSIVE mapFields(_, _, _, _, _)
mapFields(rp, i, out, fpos, log) ==
    IF i >= NumFields
    THEN [m |-> [nil |-> FALSE, kv |-> out], err |-> "nil", cause |-> "nil",
          pos |-> fpos, log |-> log]
    ELSE Only({
        IF v.err = "panic"
        THEN [m |-> NilMap, err |-> "panic", cause |-> "nil", pos |-> v.pos,
              log |-> log \o v.log]
        ELSE IF v.err # "nil"
        THEN [m |-> [nil |-> FALSE, kv |-> out], err |-> "ErrOnField",
              cause |-> v.err, pos |-> v.pos, log |-> log \o v.log]
        ELSE Only({
            mapFields(rp, i + 1, kv, v.pos, reads)
            : kv \in {(fields[i + 1].Name :> v.val) @@ out},
              reads \in {log \o v.log} })
        : v \in {Field(rp, i, fpos)} })

\* RecordToMap that always projects the record under the cursor.
RecordToMap_AtCursor(nrec, fpos) ==
    mapFields(recpointer, 0, <<>>, fpos, <<>>) @@ [recpointer |-> recpointer]

\* RecordToMap that goes to nrec also when the cursor is there already.
RecordToMap_NoShortcut(nrec, fpos) ==
    IF nrec <= 0
    THEN mapFields(recpointer, 0, <<>>, fpos, <<>>) @@ [recpointer |-> recpointer]
    ELSE Only({
        IF g.err # "nil"
        THEN [m |-> NilMap, err |-> g.err, cause |-> "nil", pos |-> fpos,
              log |-> <<>>, recpointer |-> g.recpointer]
        ELSE mapFields(g.recpointer, 0, <<>>, fpos, <<>>)
                 @@ [recpointer |-> g.recpointer]
        : g \in {GoTo(nrec)} })

\* DBF.RecordToMap: the map, the error and the record pointer afterwards.
RecordToMap(nrec, fpos) ==
    IF nrec <= 0 \/ nrec = recpointer
    THEN mapFields(recpointer, 0, <<>>, fpos, <<>>) @@ [recpointer |-> recpointer]
    ELSE Only({
        IF g.err # "nil"
        THEN [m |-> NilMap, err |-> g.err, cause |-> "nil", pos |-> fpos,
              log |-> <<>>, recpointer |-> g.recpointer]
        ELSE mapFields(g.recpointer, 0, <<>>, fpos, <<>>)
                 @@ [recpointer |-> g.recpointer]
        : g \in {GoTo(nrec)} })

\* encoding/json on a string: bytes that are not valid UTF-8 become U+FFFD.
RECURSIVE JSONString(_)
JSONString(b) ==
    IF b = <<>> THEN <<>>
    ELSE IF b[1] < 128 THEN <<b[1]>> \o JSONString(Tail(b))
    ELSE IF Len(b) >= 2 /\ utf8Valid(SubSeq(b, 1, 2))
    THEN SubSeq(b, 1, 2) \o JSONString(SubSeq(b, 3, Len(b)))
    ELSE <<92, 117, 102, 102, 102, 100>> \o JSONString(Tail(b))

\* A float64 bit pattern (most significant byte first) that is NaN or an
\* infinity: json.Marshal rejects it.
IsNaNOrInf(bits) == bits[1] % 128 = 127 /\ bits[2] >= 240

\* json.Marshal of one map value.
JSONValue(v, trimspaces) ==
    CASE v.kind = "string" ->
            Val("jstring", JSONString(IF trimspaces THEN TrimSpace(v.val) ELSE v.val))
      [] v.kind = "bytes" -> Val("jbase64", v.val)
      [] v.kind = "bool" -> Val("jbool", v.val)
      [] v.kind = "time" -> Val("jtime", v.val)
      [] v.kind = "nil" -> Val("jnull", <<>>)
      [] OTHER -> Val("jnumber", v.val)

\* DBF.RecordToJSON
RecordToJSON(nrec, trimspaces, fpos) ==
    Only({
        IF m.err # "nil" THEN [m EXCEPT !.m = NilMap]
        ELSE IF \E k \in DOMAIN m.m.kv :
                    m.m.kv[k].kind = "float64bits" /\ IsNaNOrInf(m.m.kv[k].val)
        THEN [m EXCEPT !.m = NilMap, !.err = "ErrJSONUnsupportedValue"]
        ELSE [m EXCEPT !.m.kv = [k \in DOMAIN m.m.kv |-> JSONValue(m.m.kv[k], trimspaces)]]
        : m \in {RecordToMap(nrec, fpos)} })

\* ------------------------------------------------------------------ tables
FieldHeader(name, type, pos, len, decimals) ==
    [Name |-> name, Type |-> type, Pos |-> pos, Len |-> len, Decimals |-> decimals]

\* The memo file of the tables explored: the 8-byte header (block size 8),
\* block 1 = text "hi", block 3 = text of length 0, block 4 = binary of
\* declared length 4 with 2 bytes present, block 5 = 2 bytes up to the end.
MemoFile ==
    <<0, 0, 0, 6, 0, 0, 0, 8,
      0, 0, 0, 1, 0, 0, 0, 2,
      104, 105, 0, 0, 0, 0, 0, 0,
      0, 0, 0, 1, 0, 0, 0, 0,
      0, 0, 0, 0, 0, 0, 0, 4,
      7, 255>>

\* The tables explored: descriptors, decoders, whether a memo file is
\* attached, and the files: a file of n records repeats the pattern recs and
\* lacks its last `short` bytes.
Setups ==
    << [fields |-> <<>>,
        decs |-> {"UTF8Decoder"},
        memo |-> {FALSE},
        files |-> << [recs |-> << <<32>>, <<42>> >>, short |-> 0],
                     [recs |-> << <<42>>, <<0>>, <<32>> >>, short |-> 0],
                     [recs |-> << <<32>> >>, short |-> 1] >>],
       [fields |-> << FieldHeader("NAME", "C", 1, 2, 0),
                      FieldHeader("NUM", "N", 3, 2, 0) >>,
        decs |-> {"Win1250Decoder", "UTF8Validator"},
        memo |-> {FALSE},
        files |-> << [recs |-> << <<32, 97, 98, 32, 55>>, <<42, 196, 245, 45, 51>> >>,
                      short |-> 0],
                     [recs |-> << <<32, 97, 32, 120, 49>>, <<32, 97, 98, 32, 32>> >>,
                      short |-> 0],
                     [recs |-> << <<42, 255, 32, 32, 55>>, <<0, 97, 98, 32, 55>> >>,
                      short |-> 2] >>],
       [fields |-> << FieldHeader("OK", "L", 1, 1, 0),
                      FieldHeader("GEN", "G", 2, 1, 0) >>,
        decs |-> {"UTF8Decoder"},
        memo |-> {FALSE},
        files |-> << [recs |-> << <<32, 84, 71>>, <<42, 70, 71>> >>, short |-> 0],
                     [recs |-> << <<7, 84, 71>>, <<32, 84, 71>> >>, short |-> 0] >>],
       [fields |-> << FieldHeader("ID", "I", 1, 4, 0),
                      FieldHeader("MEMO", "M", 5, 4, 0) >>,
        decs |-> {"Win1250Decoder"},
        memo |-> {TRUE, FALSE},
        files |-> << [recs |-> << <<32, 5, 0, 0, 0, 1, 0, 0, 0>>,
                                  <<42, 255, 255, 255, 255, 3, 0, 0, 0>> >>,
                      short |-> 0],
                     [recs |-> << <<32, 1, 0, 0, 0, 4, 0, 0, 0>>,
                                  <<32, 0, 0, 0, 0, 9, 0, 0, 0>>,
                                  <<42, 2, 0, 0, 0, 5, 0, 0, 0>> >>,
                      short |-> 0] >>] >>

Range(f) == {f[i] : i \in DOMAIN f}

RECURSIVE SumLen(_)
SumLen(flds) == IF flds = <<>> THEN 0 ELSE flds[1].Len + SumLen(Tail(flds))

RECURSIVE Concat(_)
Concat(ss) == IF ss = <<>> THEN <<>> ELSE ss[1] \o Concat(Tail(ss))

\* prepareDBF: the DBF struct built from a parsed header and field list.
prepareDBF(h, flds, d, src) ==
    [header |-> h, r |-> src, fields |-> flds, dec |-> d, recpointer |-> 0]

\* A table as OpenStream leaves it: n records of a file of one of the setups
\* S, with the memo file fpt.
TableOf(S, fpt) ==
    \E s \in 1..Len(S), n \in 0..MaxRec :
      \E d \in S[s].decs, memo \in S[s].memo, file \in Range(S[s].files) :
        \E body \in {Concat([i \in 1..n |-> file.recs[((i - 1) % Len(file.recs)) + 1]])},
           h \in {[FileVersion |-> 48, NumRec |-> n,
                   FirstRec |-> HeaderBase + DescLen * Len(S[s].fields),
                   RecLen |-> 1 + SumLen(S[s].fields),
                   TableFlags |-> IF memo THEN MemoFlag ELSE 0]} :
          /\ file.short <= Len(body)
          /\ \E dbf \in {prepareDBF(h, S[s].fields, d,
                                    [data |-> SubSeq(body, 1, Len(body) - file.short)])} :
                /\ header = dbf.header
                /\ fields = dbf.fields
                /\ dec = dbf.dec
                /\ r = dbf.r
                /\ recpointer = dbf.recpointer
          /\ fptheader = [BlockSize |-> BEUint(SubSeq(fpt, 7, 8), 2)]
          /\ fptr = [present |-> memo,
                     data |-> IF memo THEN fpt ELSE <<>>,
                     pos |-> IF memo THEN 8 ELSE 0]

TableInit == TableOf(Setups, MemoFile)

NoProbe ==
    [op |-> "none", n |-> 0, p0 |-> 0, err |-> "nil", row |-> NilRow, b |-> FALSE]

\* What surrounds a table that OpenStream returned: no file handles, the
\* default version check.
NoDisk == [dbf |-> <<>>, cut |-> "none", fpt |-> [exists |-> FALSE, data |-> <<>>]]

\* A goroutine that has no call in progress.
IdleCall ==
    [pc |-> "idle", nrec |-> 0, buf |-> <<>>, i |-> 0, offset |-> 0, vals |-> <<>>,
     deleted |-> FALSE, sign |-> 0, leng |-> 0, row |-> NilRow, err |-> "nil"]

\* The goroutines that share a table.
Procs == {1, 2}

StreamEnv ==
    /\ calls = [p \in Procs |-> IdleCall]
    /\ disk = NoDisk
    /\ validFileVersionFunc = "validFileVersion"
    /\ handles = <<>>
    /\ dbf_f = 0
    /\ dbf_fptf = 0
    /\ inst = "open"
    /\ olog = <<>>

NoHeld == [nil |-> TRUE, Deleted |-> FALSE, data |-> <<>>, seen |-> NilRow]

NoRet ==
    [op |-> "open", args |-> <<>>, p0 |-> 0, err |-> "nil", cause |-> "nil",
     row |-> NilRow, val |-> NilVal, b |-> FALSE, m |-> NilMap]

Init ==
    /\ TableInit
    /\ row = NilRow
    /\ ret = NoRet
    /\ rlog = <<>>
    /\ pc = "api"
    /\ scanned = <<>>
    /\ probe = NoProbe
    /\ heap = <<>>
    /\ held = NoHeld
    /\ StreamEnv

\* ----------------------------------------------------------------- calls
\* The record of a call made with the cursor at recpointer.
Ret(op, args, err) ==
    [op |-> op, args |-> args, p0 |-> recpointer, err |-> err, cause |-> "nil",
     row |-> NilRow, val |-> NilVal, b |-> FALSE, m |-> NilMap]

\* A caller makes API calls one at a time; a panic ends the program.
Callable == pc = "api" /\ ret.err # "panic"

RecnoArgs == 0..(MaxRec + 1)
\* Offsets near zero and the two extremes of int64.
OffsetArgs == ((0 - MaxRec - 1)..(MaxRec + 1)) \cup {Int64Min, Int64Max}
FieldArgs == (0 - 1)..(NumFields + 1)
NameArgs == {fields[i].Name : i \in 1..Len(fields)} \cup {"NOPE"}

DoGoTo(recno) ==
    /\ Callable
    /\ \E g \in {GoTo(recno)} :
          /\ recpointer' = g.recpointer
          /\ ret' = Ret("GoTo", <<recno>>, g.err)
    /\ rlog' = <<>>
    /\ UNCHANGED <<header, fields, dec, r, fptheader, fptr, row, pc, scanned, aux>>

DoSkip(offset) ==
    /\ Callable
    /\ \E g \in {Skip(offset)} :
          /\ recpointer' = g.recpointer
          /\ ret' = Ret("Skip", <<offset>>, g.err)
    /\ rlog' = <<>>
    /\ UNCHANGED <<header, fields, dec, r, fptheader, fptr, row, pc, scanned, aux>>

DoEOF ==
    /\ Callable
    /\ ret' = [Ret("EOF", <<>>, "nil") EXCEPT !.b = EOF]
    /\ rlog' = <<>>
    /\ UNCHANGED <<header, fields, dec, r, fptheader, fptr, recpointer, row,
                   pc, scanned, aux>>

DoBOF ==
    /\ Callable
    /\ ret' = [Ret("BOF", <<>>, "nil") EXCEPT !.b = BOF]
    /\ rlog' = <<>>
    /\ UNCHANGED <<header, fields, dec, r, fptheader, fptr, recpointer, row,
                   pc, scanned, aux>>

DoRecord ==
    /\ Callable
    /\ \E x \in {RecordAt(recpointer, fptr.pos)} :
          /\ ret' = [Ret("Record", <<>>, x.err) EXCEPT !.row = x.row]
          /\ row' = x.row
          /\ fptr' = [fptr EXCEPT !.pos = x.pos]
          /\ rlog' = x.log
    /\ UNCHANGED <<header, fields, dec, r, fptheader, recpointer, pc, scanned, aux>>

DoRecordAt(nrec) ==
    /\ Callable
    /\ \E x \in {RecordAt(nrec, fptr.pos)} :
          /\ ret' = [Ret("RecordAt", <<nrec>>, x.err) EXCEPT !.row = x.row]
          /\ row' = x.row
          /\ fptr' = [fptr EXCEPT !.pos = x.pos]
          /\ rlog' = x.log
    /\ UNCHANGED <<header, fields, dec, r, fptheader, recpointer, pc, scanned, aux>>

DoField(fieldpos) ==
    /\ Callable
    /\ \E x \in {Field(recpointer, fieldpos, fptr.pos)} :
          /\ ret' = [Ret("Field", <<fieldpos>>, x.err) EXCEPT !.val = x.val]
          /\ fptr' = [fptr EXCEPT !.pos = x.pos]
          /\ rlog' = x.log
    /\ UNCHANGED <<header, fields, dec, r, fptheader, recpointer, row, pc, scanned, aux>>

DoDeleted ==
    /\ Callable
    /\ \E x \in {DeletedAt(recpointer)} :
          /\ ret' = [Ret("Deleted", <<>>, x.err) EXCEPT !.b = x.b]
          /\ rlog' = x.log
    /\ UNCHANGED <<header, fields, dec, r, fptheader, fptr, recpointer, row,
                   pc, scanned, aux>>

DoDeletedAt(recordpos) ==
    /\ Callable
    /\ \E x \in {DeletedAt(recordpos)} :
          /\ ret' = [Ret("DeletedAt", <<recordpos>>, x.err) EXCEPT !.b = x.b]
          /\ rlog' = x.log
    /\ UNCHANGED <<header, fields, dec, r, fptheader, fptr, recpointer, row,
                   pc, scanned, aux>>

DoRecordToMap(nrec) ==
    /\ Callable
    /\ \E x \in {RecordToMap(nrec, fptr.pos)} :
          /\ ret' = [Ret("RecordToMap", <<nrec>>, x.err) EXCEPT
                         !.m = x.m, !.cause = x.cause]
          /\ recpointer' = x.recpointer
          /\ fptr' = [fptr EXCEPT !.pos = x.pos]
          /\ rlog' = x.log
    /\ UNCHANGED <<header, fields, dec, r, fptheader, row, pc, scanned, aux>>

DoRecordToJSON(nrec, trimspaces) ==
    /\ Callable
    /\ \E x \in {RecordToJSON(nrec, trimspaces, fptr.pos)} :
          /\ ret' = [Ret("RecordToJSON", <<nrec, IF trimspaces THEN 1 ELSE 0>>, x.err)
                         EXCEPT !.m = x.m, !.cause = x.cause]
          /\ recpointer' = x.recpointer
          /\ fptr' = [fptr EXCEPT !.pos = x.pos]
          /\ rlog' = x.log
    /\ UNCHANGED <<header, fields, dec, r, fptheader, row, pc, scanned, aux>>

\* record.Field(pos) on the Row the caller holds.
DoRecordField(pos) ==
    /\ Callable
    /\ ~row.nil
    /\ \E x \in {RecordField(row, pos)} :
          ret' = [Ret("Record.Field", <<pos>>, x.err) EXCEPT !.val = x.val]
    /\ rlog' = <<>>
    /\ UNCHANGED <<header, fields, dec, r, fptheader, fptr, recpointer, row,
                   pc, scanned, aux>>

\* record.Field(dbf.FieldPos(name)), the lookup by name of the README.
DoRecordFieldByName(name) ==
    /\ Callable
    /\ ~row.nil
    /\ \E x \in {RecordField(row, FieldPos(name))} :
          ret' = [Ret("Record.FieldByName", <<FieldPos(name)>>, x.err) EXCEPT
                      !.val = x.val]
    /\ rlog' = <<>>
    /\ UNCHANGED <<header, fields, dec, r, fptheader, fptr, recpointer, row,
                   pc, scanned, aux>>

Next ==
    \/ \E recno \in RecnoArgs : DoGoTo(recno)
    \/ \E offset \in OffsetArgs : DoSkip(offset)
    \/ DoEOF
    \/ DoBOF
    \/ DoRecord
    \/ \E nrec \in RecnoArgs : DoRecordAt(nrec)
    \/ \E fieldpos \in FieldArgs : DoField(fieldpos)
    \/ DoDeleted
    \/ \E recordpos \in RecnoArgs : DoDeletedAt(recordpos)
    \/ \E nrec \in RecnoArgs : DoRecordToMap(nrec)
    \/ \E nrec \in RecnoArgs, trimspaces \in BOOLEAN : DoRecordToJSON(nrec, trimspaces)
    \/ \E pos \in FieldArgs : DoRecordField(pos)
    \/ \E name \in NameArgs : DoRecordFieldByName(name)

Spec == Init /\ [][Next]_vars

\* ------------------------------------------- random access under a cursor
\* A caller that moves the cursor between its RecordAt / DeletedAt calls and
\* notes what the first of them was given.
FrameRecordAt(nrec) ==
    /\ Callable
    /\ \E x \in {RecordAt(nrec, fptr.pos)} :
          /\ ret' = [Ret("RecordAt", <<nrec>>, x.err) EXCEPT !.row = x.row]
          /\ row' = x.row
          /\ fptr' = [fptr EXCEPT !.pos = x.pos]
          /\ rlog' = x.log
          /\ probe' = IF probe.op # "none" THEN probe
                      ELSE [op |-> "RecordAt", n |-> nrec, p0 |-> recpointer,
                            err |-> x.err, row |-> x.row, b |-> FALSE]
    /\ UNCHANGED <<header, fields, dec, r, fptheader, recpointer, pc, scanned,
                   heap, held, env>>

FrameDeletedAt(recordpos) ==
    /\ Callable
    /\ \E x \in {DeletedAt(recordpos)} :
          /\ ret' = [Ret("DeletedAt", <<recordpos>>, x.err) EXCEPT !.b = x.b]
          /\ rlog' = x.log
          /\ probe' = IF probe.op # "none" THEN probe
                      ELSE [op |-> "DeletedAt", n |-> recordpos, p0 |-> recpointer,
                            err |-> x.err, row |-> NilRow, b |-> x.b]
    /\ UNCHANGED <<header, fields, dec, r, fptheader, fptr, recpointer, row, pc, scanned,
                   heap, held, env>>

FrameNext ==
    \/ \E recno \in RecnoArgs : DoGoTo(recno)
    \/ \E nrec \in RecnoArgs : FrameRecordAt(nrec)
    \/ \E recordpos \in RecnoArgs : FrameDeletedAt(recordpos)

SpecFrame == Init /\ [][FrameNext]_vars


\* ------------------------------------------- rows held across later calls
\* The memo file of the table below (block size 8): block 1 = binary <<9, 8>>,
\* block 3 = text of length 0, block 4 = binary (signature 2) of length 0,
\* block 5 = text of declared length 4 with 2 bytes present, block 6 = the 2
\* bytes up to the end of the file.
RowMemoFile ==
    <<0, 0, 0, 7, 0, 0, 0, 8,
      0, 0, 0, 0, 0, 0, 0, 2,
      9, 8, 0, 0, 0, 0, 0, 0,
      0, 0, 0, 1, 0, 0, 0, 0,
      0, 0, 0, 2, 0, 0, 0, 0,
      0, 0, 0, 1, 0, 0, 0, 4,
      104, 105>>

\* A table with a varbinary field and a memo field.
RowSetups ==
    << [fields |-> << FieldHeader("RAW", "V", 1, 2, 0),
                      FieldHeader("MEMO", "M", 3, 4, 0) >>,
        decs |-> {"UTF8Decoder"},
        memo |-> {TRUE},
        files |-> << [recs |-> << <<32, 1, 2, 1, 0, 0, 0>>,
                                  <<42, 3, 4, 4, 0, 0, 0>>,
                                  <<32, 5, 6, 5, 0, 0, 0>> >>,
                      short |-> 0],
                     [recs |-> << <<32, 7, 7, 3, 0, 0, 0>>,
                                  <<32, 1, 2, 5, 0, 0, 0>>,
                                  <<42, 7, 7, 1, 0, 0, 0>> >>,
                      short |-> 0],
                     [recs |-> << <<32, 8, 8, 6, 0, 0, 0>>,
                                  <<42, 3, 4, 7, 0, 0, 0>>,
                                  <<32, 1, 2, 1, 0, 0, 0>> >>,
                      short |-> 0] >>] >>

\* A make that hands out again a buffer of the same size it handed out before.
make_Reuse(h, buf) ==
    IF \E a \in 1..Len(h) : Len(h[a]) = Len(buf)
    THEN Only({ [heap |-> [h EXCEPT ![a] = buf], at |-> a]
                : a \in {CHOOSE a \in 1..Len(h) : Len(h[a]) = Len(buf)} })
    ELSE [heap |-> Append(h, buf), at |-> Len(h) + 1]

\* buf := make([]byte, n) and the read that fills it: a buffer of its own, at
\* an address that no value handed out before refers to.
make(h, buf) ==
    [heap |-> Append(h, buf), at |-> Len(h) + 1]

\* The buffers made one after the other.
RECURSIVE Fill(_, _)
Fill(h, bufs) ==
    IF bufs = <<>> THEN h ELSE Fill(make(h, Head(bufs)).heap, Tail(bufs))

\* buf := make([]byte, leng) of DBF.readFPT for the memo field bytes raw; a
\* block of length 0 and a block that cannot be reached make none.
memoBufs(raw) ==
    Only({ IF m.data = <<>> THEN <<>> ELSE <<m.data>> : m \in {readFPT(raw, 0)} })

\* The field loop of DBF.bytesToRecord as it lies in memory: the value of a V
\* field is the slice data[offset:offset+Len] of the record buffer at address
\* at, a binary memo value is the payload buffer readFPT made, every other
\* value is held by value (Go strings, numbers and times do not change).
RECURSIVE sliceFields(_, _, _, _, _, _)
sliceFields(data, rowdata, i, offset, at, h) ==
    IF i > Len(rowdata) THEN [heap |-> h, data |-> <<>>]
    ELSE Only({
        Only({ [heap |-> rest.heap, data |-> <<c.v>> \o rest.data]
               : rest \in {sliceFields(data, rowdata, i + 1, offset + fields[i].Len,
                                       at, c.heap)} })
        : c \in {IF rowdata[i].kind = "nil" THEN [heap |-> h, v |-> rowdata[i]]
                 ELSE IF fields[i].Type = "V"
                 THEN [heap |-> h, v |-> Val("slice", <<at, offset, fields[i].Len>>)]
                 ELSE IF fields[i].Type = "M"
                 THEN Only({
                     IF bufs = <<>> THEN [heap |-> h, v |-> rowdata[i]]
                     ELSE Only({
                         [heap |-> m.heap,
                          v |-> IF rowdata[i].kind = "bytes"
                                THEN Val("slice", <<m.at, 0, Len(bufs[1])>>)
                                ELSE rowdata[i]]
                         : m \in {make(h, bufs[1])} })
                     : bufs \in {memoBufs(SubSeq(data, offset + 1,
                                                 offset + fields[i].Len))} })
                 ELSE [heap |-> h, v |-> rowdata[i]]} })

\* What a held value reads as now.
Deref(h, v) ==
    IF v.kind # "slice" THEN v
    ELSE Val("bytes", SubSeq(h[v.val[1]], v.val[2] + 1, v.val[2] + v.val[3]))

\* What a held *Record reads as now.
RowOf(h, rec) ==
    [nil |-> rec.nil, Deleted |-> rec.Deleted,
     data |-> [i \in 1..Len(rec.data) |-> Deref(h, rec.data[i])]]

\* The buffers DBF.Field makes for field fieldpos of record rp: the one of
\* readField and, for a memo field, the one of readFPT.
fieldBufs(rp, fieldpos) ==
    Only({
        IF rd.log = <<>> THEN <<>>
        ELSE <<rd.buf>> \o (IF rd.err = "nil" /\ fields[fieldpos + 1].Type = "M"
                            THEN memoBufs(rd.buf) ELSE <<>>)
        : rd \in {readField(rp, fieldpos)} })

\* The buffers DBF.RecordToMap makes, field after field.
RECURSIVE mapBufs(_, _)
mapBufs(rp, i) ==
    IF i >= NumFields THEN <<>> ELSE fieldBufs(rp, i) \o mapBufs(rp, i + 1)

RowsInit ==
    /\ TableOf(RowSetups, RowMemoFile)
    /\ row = NilRow
    /\ ret = NoRet
    /\ rlog = <<>>
    /\ pc = "api"
    /\ scanned = <<>>
    /\ probe = NoProbe
    /\ heap = <<>>
    /\ held = NoHeld
    /\ StreamEnv

\* dbf.RecordAt(nrec); the caller holds on to the first *Record it is given.
\* Buffers that no held value refers to are left to the garbage collector.
RowsRecordAt(nrec) ==
    /\ Callable
    /\ \E x \in {RecordAt(nrec, fptr.pos)}, rd \in {readRecord(nrec)} :
        \E b \in {IF rd.log = <<>> THEN [heap |-> heap, at |-> 0]
                  ELSE make(heap, rd.buf)} :
          \E s \in {IF x.row.nil THEN [heap |-> b.heap, data |-> <<>>]
                    ELSE sliceFields(rd.buf, x.row.data, 1, 1, b.at, b.heap)} :
            /\ ret' = [Ret("RecordAt", <<nrec>>, x.err) EXCEPT !.row = x.row]
            /\ row' = x.row
            /\ fptr' = [fptr EXCEPT !.pos = x.pos]
            /\ rlog' = x.log
            /\ IF held.nil /\ ~x.row.nil /\ x.err = "nil"
               THEN /\ held' = [nil |-> FALSE, Deleted |-> x.row.Deleted,
                                data |-> s.data, seen |-> x.row]
                    /\ heap' = s.heap
               ELSE /\ held' = held
                    /\ heap' = SubSeq(s.heap, 1, Len(heap))
    /\ UNCHANGED <<header, fields, dec, r, fptheader, recpointer, pc, scanned, probe, env>>

\* dbf.Record(): what dbf.RecordAt(dbf.recpointer) does.
RowsRecord == RowsRecordAt(recpointer)

\* dbf.Field(fieldpos)
RowsField(fieldpos) ==
    /\ Callable
    /\ \E x \in {Field(recpointer, fieldpos, fptr.pos)} :
          /\ ret' = [Ret("Field", <<fieldpos>>, x.err) EXCEPT !.val = x.val]
          /\ fptr' = [fptr EXCEPT !.pos = x.pos]
          /\ rlog' = x.log
    /\ heap' = SubSeq(Fill(heap, fieldBufs(recpointer, fieldpos)), 1, Len(heap))
    /\ UNCHANGED <<header, fields, dec, r, fptheader, recpointer, row, pc, scanned,
                   probe, held, env>>

\* dbf.RecordToMap(nrec)
RowsRecordToMap(nrec) ==
    /\ Callable
    /\ \E x \in {RecordToMap(nrec, fptr.pos)} :
          /\ ret' = [Ret("RecordToMap", <<nrec>>, x.err) EXCEPT
                         !.m = x.m, !.cause = x.cause]
          /\ recpointer' = x.recpointer
          /\ fptr' = [fptr EXCEPT !.pos = x.pos]
          /\ rlog' = x.log
          /\ heap' = SubSeq(Fill(heap, mapBufs(x.recpointer, 0)), 1, Len(heap))
    /\ UNCHANGED <<header, fields, dec, r, fptheader, row, pc, scanned, probe, held,
                   env>>

RowsNext ==
    \/ \E recno \in RecnoArgs : DoGoTo(recno)
    \/ \E offset \in {0 - 1, 1} : DoSkip(offset)
    \/ RowsRecord
    \/ \E nrec \in RecnoArgs : RowsRecordAt(nrec)
    \/ \E fieldpos \in FieldArgs : RowsField(fieldpos)
    \/ \E nrec \in RecnoArgs : RowsRecordToMap(nrec)

SpecRows == RowsInit /\ [][RowsNext]_vars


\* ------------------------------------------------------- opening a table
\* binary.Size of DBFHeader and of FieldHeader: what binary.Read asks for.
HeaderSize == 30
DescSize == 33
\* The offset of the first field descriptor and the header record terminator.
DescStart == 32
Terminator == 13

\* x in n bytes, the least significant byte first.
LEBytes(x, n) == [i \in 1..n |-> (x \div Pow2(8 * (i - 1))) % 256]

\* The 32 bytes of a table header on disk.
HeaderBytes(version, numrec, firstrec, reclen, flags) ==
    <<version, 16, 11, 14>> \o LEBytes(numrec, 4) \o LEBytes(firstrec, 2)
        \o LEBytes(reclen, 2) \o [i \in 1..16 |-> 0] \o <<flags, 3, 0, 0>>

\* The 32 bytes of a field descriptor on disk.
DescBytes(name, type, pos, len, decimals) ==
    name \o <<type>> \o LEBytes(pos, 4) \o <<len, decimals, 0>>
         \o [i \in 1..13 |-> 0]

\* The field lists of the files on disk: none, (NAME C 2), (ID I 4, MEMO M 4).
OpenDescs ==
    << <<>>,
       << DescBytes(<<78, 65, 77, 69, 0, 0, 0, 0, 0, 0, 0>>, 67, 1, 2, 0) >>,
       << DescBytes(<<73, 68, 0, 0, 0, 0, 0, 0, 0, 0, 0>>, 73, 1, 4, 0),
          DescBytes(<<77, 69, 77, 79, 0, 0, 0, 0, 0, 0, 0>>, 77, 5, 4, 0) >> >>

\* The record of each of those files.
OpenRecs == << <<32>>, <<32, 97, 98>>, <<32, 5, 0, 0, 0, 1, 0, 0, 0>> >>

\* File-version bytes: Visual FoxPro, with autoincrement, FoxBASE+/dBase III,
\* Visual FoxPro with varchar.
Versions == {48, 49, 3, 50}

\* Table flags: none, structural index, memo, both.
TableFlagSet == {0, 1, 2, 3}

\* A table file of one record: header, descriptors, terminator, the 263
\* bytes up to the first record, the record. cut = "header" ends the file
\* inside the header, cut = "fields" before the terminator.
DbfFile(version, flags, k, cut) ==
    Only({
        IF cut = "header" THEN SubSeq(head, 1, HeaderSize - 2)
        ELSE IF cut = "fields" THEN head \o Concat(OpenDescs[k])
        ELSE head \o Concat(OpenDescs[k]) \o <<Terminator>>
                  \o [i \in 1..(HeaderBase - DescStart - 1) |-> 0] \o OpenRecs[k]
        : head \in {HeaderBytes(version, 1, HeaderBase + DescLen * Len(OpenDescs[k]),
                                Len(OpenRecs[k]), flags)} })

\* io.ReadFull, as binary.Read calls it: n bytes at offset pos of src.
ReadFull(src, pos, n) ==
    IF pos >= Len(src) THEN [buf |-> <<>>, err |-> "io.EOF"]
    ELSE IF pos + n > Len(src)
    THEN [buf |-> SubSeq(src, pos + 1, Len(src)), err |-> "io.ErrUnexpectedEOF"]
    ELSE [buf |-> SubSeq(src, pos + 1, pos + n), err |-> "nil"]

NilHeader ==
    [FileVersion |-> 0, NumRec |-> 0, FirstRec |-> 0, RecLen |-> 0, TableFlags |-> 0]

\* readDBFHeader: the header struct, the error, the reads made (<<offset,
\* length>>).
readDBFHeader(src) ==
    Only({
        IF rd.err # "nil"
        THEN [h |-> NilHeader, err |-> rd.err, log |-> << <<0, HeaderSize>> >>]
        ELSE [h |-> [FileVersion |-> rd.buf[1],
                     NumRec |-> LEUint(SubSeq(rd.buf, 5, 8), 4),
                     FirstRec |-> LEUint(SubSeq(rd.buf, 9, 10), 2),
                     RecLen |-> LEUint(SubSeq(rd.buf, 11, 12), 2),
                     TableFlags |-> rd.buf[29]],
              err |-> "nil", log |-> << <<0, HeaderSize>> >>]
        : rd \in {ReadFull(src, 0, HeaderSize)} })

\* An accepting version check that also takes 0x32.
validFileVersion_WithVarchar(version) ==
    IF version \in {48, 49, 50} THEN "nil" ELSE "ErrUntestedVersion"

\* validFileVersion
validFileVersion(version) ==
    IF version \in {48, 49} THEN "nil" ELSE "ErrUntestedVersion"

\* The version checks a caller installs: the default one and the one of
\* TestSetValidFileVersionFunc, which takes 0x03 only.
VersionFuncs == {"validFileVersion", "only0x03"}


\* A version check that cannot be replaced: always the default one.
validFileVersionCall_Fixed(fn, version) ==
    validFileVersion(version)

\* The call of the version check in force.
validFileVersionCall(fn, version) ==
    IF fn = "validFileVersion" THEN validFileVersion(version)
    ELSE IF version = 3 THEN "nil" ELSE "ErrNot0x03"

\* FieldHeader.FieldType: string(f.Type), for the type letters C I M N V.
FieldType(b) ==
    CASE b = 67 -> "C" [] b = 73 -> "I" [] b = 77 -> "M" [] b = 78 -> "N"
      [] b = 86 -> "V" [] OTHER -> "?"

\* The loop of readHeaderFields from offset on; Name is kept as the 11 bytes
\* of the struct.
RECURSIVE headerFields(_, _, _, _)
headerFields(src, offset, flds, log) ==
    IF offset >= Len(src)
    THEN [fields |-> <<>>, err |-> "io.EOF", log |-> Append(log, <<offset, 1>>)]
    ELSE IF src[offset + 1] = Terminator
    THEN [fields |-> flds, err |-> "nil", log |-> Append(log, <<offset, 1>>)]
    ELSE Only({
        IF rd.err # "nil"
        THEN [fields |-> <<>>, err |-> rd.err,
              log |-> log \o << <<offset, 1>>, <<offset, DescSize>> >>]
        ELSE headerFields(src, offset + DescLen,
                 Append(flds, FieldHeader(SubSeq(rd.buf, 1, 11), FieldType(rd.buf[12]),
                                          LEUint(SubSeq(rd.buf, 13, 16), 4),
                                          rd.buf[17], rd.buf[18])),
                 log \o << <<offset, 1>>, <<offset, DescSize>> >>)
        : rd \in {ReadFull(src, offset, DescSize)} })

\* readHeaderFields
readHeaderFields(src) == headerFields(src, DescStart, <<>>, <<>>)

\* The fields of a *DBF when no table is open.
NilDBF ==
    [header |-> NilHeader, r |-> [data |-> <<>>], fields |-> <<>>,
     dec |-> "UTF8Decoder", recpointer |-> 0,
     fptheader |-> [BlockSize |-> 0],
     fptr |-> [present |-> FALSE, data |-> <<>>, pos |-> 0]]

\* prepareDBF on the bytes src with the version check fn in force: the
\* struct, the error and the reads made.
prepareDBFFrom(src, d, fn) ==
    Only({
        IF hd.err # "nil" THEN [dbf |-> NilDBF, err |-> hd.err, log |-> hd.log]
        ELSE IF validFileVersionCall(fn, hd.h.FileVersion) # "nil"
        THEN [dbf |-> NilDBF, err |-> validFileVersionCall(fn, hd.h.FileVersion),
              log |-> hd.log]
        ELSE Only({
            IF fl.err # "nil"
            THEN [dbf |-> NilDBF, err |-> fl.err, log |-> hd.log \o fl.log]
            ELSE [dbf |-> prepareDBF(hd.h, fl.fields, d,
                              [data |-> SubSeq(src, hd.h.FirstRec + 1, Len(src))])
                          @@ NilDBF,
                  err |-> "nil", log |-> hd.log \o fl.log]
            : fl \in {readHeaderFields(src)} })
        : hd \in {readDBFHeader(src)} })

\* readFPTHeader
readFPTHeader(fpt) ==
    Only({
        IF rd.err # "nil" THEN [h |-> [BlockSize |-> 0], err |-> rd.err]
        ELSE [h |-> [BlockSize |-> BEUint(SubSeq(rd.buf, 7, 8), 2)], err |-> "nil"]
        : rd \in {ReadFull(fpt, 0, 8)} })

\* DBF.prepareFPT
prepareFPT(dbf, fpt) ==
    Only({
        IF h.err # "nil" THEN [dbf |-> dbf, err |-> h.err]
        ELSE [dbf |-> [dbf EXCEPT !.fptr = [present |-> TRUE, data |-> fpt, pos |-> 8],
                                  !.fptheader = h.h],
              err |-> "nil"]
        : h \in {readFPTHeader(fpt)} })

\* (dbf.header.TableFlags & 0x02) != 0
HasMemoFlag(flags) == (flags \div MemoFlag) % 2 = 1

\* OpenStream that takes a missing memo source for a table without memo.
OpenStream_MemoOptional(dbffile, fptfile, d, fn) ==
    Only({
        IF p.err # "nil" THEN [dbf |-> NilDBF, nil |-> TRUE, err |-> p.err, log |-> p.log]
        ELSE IF HasMemoFlag(p.dbf.header.TableFlags) /\ ~fptfile.nil
        THEN Only({
            IF m.err # "nil"
            THEN [dbf |-> NilDBF, nil |-> TRUE, err |-> m.err, log |-> p.log]
            ELSE [dbf |-> m.dbf, nil |-> FALSE, err |-> "nil", log |-> p.log]
            : m \in {prepareFPT(p.dbf, fptfile.data)} })
        ELSE [dbf |-> p.dbf, nil |-> FALSE, err |-> "nil", log |-> p.log]
        : p \in {prepareDBFFrom(dbffile, d, fn)} })

\* OpenStream: the *DBF (nil on an error), the error, the reads made on the
\* primary source.
OpenStream(dbffile, fptfile, d, fn) ==
    Only({
        IF p.err # "nil" THEN [dbf |-> NilDBF, nil |-> TRUE, err |-> p.err, log |-> p.log]
        ELSE IF HasMemoFlag(p.dbf.header.TableFlags)
        THEN IF fptfile.nil
             THEN [dbf |-> NilDBF, nil |-> TRUE, err |-> "ErrNoFPTFile", log |-> p.log]
             ELSE Only({
                 IF m.err # "nil"
                 THEN [dbf |-> NilDBF, nil |-> TRUE, err |-> m.err, log |-> p.log]
                 ELSE [dbf |-> m.dbf, nil |-> FALSE, err |-> "nil", log |-> p.log]
                 : m \in {prepareFPT(p.dbf, fptfile.data)} })
        ELSE [dbf |-> p.dbf, nil |-> FALSE, err |-> "nil", log |-> p.log]
        : p \in {prepareDBFFrom(dbffile, d, fn)} })

\* os.Open: one more handle, open.
osOpen(hs, name) == Append(hs, [name |-> name, open |-> TRUE, err |-> "none"])

\* OpenFile on the table file of the disk d: as OpenStream, with the handles
\* opened so far (hs) and the two handles the *DBF keeps.
OpenFile(dk, d, fn, hs) ==
    Only({
        IF p.err # "nil"
        THEN [dbf |-> NilDBF, nil |-> TRUE, err |-> p.err, log |-> p.log,
              handles |-> osOpen(hs, "dbf"), f |-> 0, fptf |-> 0]
        ELSE IF HasMemoFlag(p.dbf.header.TableFlags)
        THEN IF ~dk.fpt.exists
             THEN [dbf |-> NilDBF, nil |-> TRUE, err |-> "os.ErrNotExist", log |-> p.log,
                   handles |-> osOpen(hs, "dbf"), f |-> 0, fptf |-> 0]
             ELSE Only({
                 IF m.err # "nil"
                 THEN [dbf |-> NilDBF, nil |-> TRUE, err |-> m.err, log |-> p.log,
                       handles |-> osOpen(osOpen(hs, "dbf"), "fpt"),
                       f |-> 0, fptf |-> 0]
                 ELSE [dbf |-> m.dbf, nil |-> FALSE, err |-> "nil", log |-> p.log,
                       handles |-> osOpen(osOpen(hs, "dbf"), "fpt"),
                       f |-> Len(hs) + 1, fptf |-> Len(hs) + 2]
                 : m \in {prepareFPT(p.dbf, dk.fpt.data)} })
        ELSE [dbf |-> p.dbf, nil |-> FALSE, err |-> "nil", log |-> p.log,
              handles |-> osOpen(hs, "dbf"), f |-> Len(hs) + 1, fptf |-> 0]
        : p \in {prepareDBFFrom(dk.dbf, d, fn)} })

\* (*os.File).Close on handle h with the outcome e of closing an open file:
\* a file that was closed before gives os.ErrClosed.
fileClose(hs, h, e) ==
    Only({ [handles |-> [hs EXCEPT ![h] = [@ EXCEPT !.open = FALSE, !.err = err]],
            err |-> err]
           : err \in {IF hs[h].open THEN e ELSE "os.ErrClosed"} })

\* DBF.Close with the outcomes e1 and e2 of closing the two files: the
\* error, the error it wraps, the handles Close was called on.
Close(hs, e1, e2) ==
    Only({
        Only({
            [handles |-> b.handles,
             err |-> IF a.err # "nil" THEN "ErrClosingDBF"
                     ELSE IF b.err # "nil" THEN "ErrClosingFPT" ELSE "nil",
             cause |-> IF a.err # "nil" THEN a.err ELSE b.err,
             closed |-> (IF dbf_f # 0 THEN <<dbf_f>> ELSE <<>>)
                            \o (IF dbf_fptf # 0 THEN <<dbf_fptf>> ELSE <<>>)]
            : b \in {IF dbf_fptf # 0 THEN fileClose(a.handles, dbf_fptf, e2)
                     ELSE [handles |-> a.handles, err |-> "nil"]} })
        : a \in {IF dbf_f # 0 THEN fileClose(hs, dbf_f, e1)
                 ELSE [handles |-> hs, err |-> "nil"]} })

\* The most handles explored.
MaxHandles == 3

\* A process before its first open: a table file and maybe a memo file,
\* whole or cut inside its header, on disk, the default version check in
\* force.
OpenInit ==
    /\ \E version \in Versions, flags \in TableFlagSet, k \in 1..Len(OpenDescs),
          cut \in {"none", "header", "fields"},
          fpt \in {[exists |-> FALSE, data |-> <<>>], [exists |-> TRUE, data |-> MemoFile],
                   [exists |-> TRUE, data |-> SubSeq(MemoFile, 1, 4)]} :
          disk = [dbf |-> DbfFile(version, flags, k, cut), cut |-> cut, fpt |-> fpt]
    /\ validFileVersionFunc = "validFileVersion"
    /\ handles = <<>>
    /\ dbf_f = 0
    /\ dbf_fptf = 0
    /\ inst = "nil"
    /\ olog = <<>>
    /\ calls = [p \in Procs |-> IdleCall]
    /\ header = NilDBF.header
    /\ fields = NilDBF.fields
    /\ dec = NilDBF.dec
    /\ r = NilDBF.r
    /\ fptheader = NilDBF.fptheader
    /\ fptr = NilDBF.fptr
    /\ recpointer = NilDBF.recpointer
    /\ row = NilRow
    /\ ret = [NoRet EXCEPT !.op = "none"]
    /\ rlog = <<>>
    /\ pc = "api"
    /\ scanned = <<>>
    /\ probe = NoProbe
    /\ heap = <<>>
    /\ held = NoHeld

\* dbf, err := ...: the caller's *DBF is what the open returned.
Opened(x) ==
    /\ header' = x.dbf.header
    /\ fields' = x.dbf.fields
    /\ dec' = x.dbf.dec
    /\ r' = x.dbf.r
    /\ fptheader' = x.dbf.fptheader
    /\ fptr' = x.dbf.fptr
    /\ recpointer' = x.dbf.recpointer
    /\ inst' = IF x.nil THEN "nil" ELSE "open"
    /\ olog' = x.log
    /\ row' = NilRow
    /\ rlog' = <<>>

\* OpenStream(bytes.NewReader(dbfbytes), fptfile, dec); given says whether
\* fptfile is a reader of the memo file or nil.
DoOpenStream(given) ==
    /\ Callable
    /\ given => disk.fpt.exists
    /\ \E x \in {OpenStream(disk.dbf, [nil |-> ~given, data |-> disk.fpt.data],
                            "UTF8Decoder", validFileVersionFunc)} :
          /\ Opened(x)
          /\ ret' = [Ret("OpenStream", <<IF given THEN 1 ELSE 0>>, x.err)
                         EXCEPT !.p0 = 0]
          /\ dbf_f' = 0
          /\ dbf_fptf' = 0
    /\ UNCHANGED <<pc, scanned, probe, heap, held, calls, disk, validFileVersionFunc, handles>>

\* OpenFile(filename, dec)
DoOpenFile ==
    /\ Callable
    /\ Len(handles) + 2 <= MaxHandles
    /\ \E x \in {OpenFile(disk, "UTF8Decoder", validFileVersionFunc, handles)} :
          /\ Opened(x)
          /\ ret' = [Ret("OpenFile", <<>>, x.err) EXCEPT !.p0 = 0]
          /\ handles' = x.handles
          /\ dbf_f' = x.f
          /\ dbf_fptf' = x.fptf
    /\ UNCHANGED <<pc, scanned, probe, heap, held, calls, disk, validFileVersionFunc>>

\* SetValidFileVersionFunc(fn)
DoSetValidFileVersionFunc(fn) ==
    /\ Callable
    /\ validFileVersionFunc' = fn
    /\ ret' = [Ret("SetValidFileVersionFunc", <<>>, "nil") EXCEPT !.cause = fn]
    /\ UNCHANGED <<header, fields, dec, r, fptheader, fptr, recpointer, row, rlog,
                   pc, scanned, probe, heap, held, calls, disk, handles, dbf_f, dbf_fptf,
                   inst, olog>>

\* dbf.Close(); closing an open file succeeds or fails with an I/O error.
DoClose ==
    /\ Callable
    /\ inst = "open"
    /\ \E e1 \in {"nil", "EIO"}, e2 \in {"nil", "EIO"} :
        \E x \in {Close(handles, e1, e2)} :
          /\ handles' = x.handles
          /\ ret' = [Ret("Close", x.closed, x.err) EXCEPT !.cause = x.cause]
    /\ UNCHANGED <<header, fields, dec, r, fptheader, fptr, recpointer, row, rlog,
                   pc, scanned, probe, heap, held, calls, disk, validFileVersionFunc,
                   dbf_f, dbf_fptf, inst, olog>>

OpenNext ==
    \/ \E given \in BOOLEAN : DoOpenStream(given)
    \/ DoOpenFile
    \/ \E fn \in VersionFuncs : DoSetValidFileVersionFunc(fn)
    \/ DoClose

SpecOpen == OpenInit /\ [][OpenNext]_vars


\* ------------------------------------------------- numeric field decoding
\* The width of the numeric fields explored and the bytes they hold: space,
\* '-', '.', '0', '4', 'x'.
\* ------------------------------------------- concurrent calls on one table
\* Two goroutines call RecordAt on the same *DBF without a lock. A step is a
\* read of the primary source (ReadAt, which has no offset to share) with
\* the decoding that follows it, or one Seek or Read of the memo source,
\* whose offset the goroutines share.

\* return rec, err
Returned(c, rec, err) == [c EXCEPT !.pc = "done", !.row = rec, !.err = err]

\* The rest of parseMemo and of the M branch once readFPT has returned data:
\* the value is stored and the field loop goes on, or the call returns the
\* decoder's error.
MemoRead(c, data, isText) ==
    Only({
        IF isText /\ d.err # "nil"
        THEN Returned(c, [nil |-> FALSE, Deleted |-> c.deleted, data |-> c.vals], d.err)
        ELSE [c EXCEPT !.pc = "field", !.i = c.i + 1,
                       !.offset = c.offset + fields[c.i + 1].Len,
                       !.vals[c.i + 1] = IF isText THEN Val("string", d.out)
                                                   ELSE Val("bytes", data)]
        : d \in {Decode(dec, data)} })

\* RecordAt that reads into one buffer the *DBF keeps: the read overwrites
\* the record of a call that is decoding.
ConcRecordAt_SharedBuf(p, nrec) ==
    /\ calls[p].pc = "idle"
    /\ \E rd \in {readRecord(nrec)}, c \in {[calls[p] EXCEPT !.nrec = nrec]} :
          calls' = [q \in Procs |->
              IF q # p
              THEN (IF calls[q].pc = "field" /\ rd.err = "nil"
                    THEN [calls[q] EXCEPT !.buf = rd.buf] ELSE calls[q])
              ELSE IF rd.err # "nil" THEN Returned(c, NilRow, rd.err)
              ELSE IF Len(rd.buf) = 0 THEN Returned(c, NilRow, "panic")
              ELSE IF rd.buf[1] # FlagDeleted /\ rd.buf[1] # FlagActive
              THEN Returned(c, NilRow, "ErrInvalidRecordData")
              ELSE [c EXCEPT !.pc = "field", !.buf = rd.buf, !.i = 0, !.offset = 1,
                             !.deleted = rd.buf[1] = FlagDeleted,
                             !.vals = [i \in 1..NumFields |-> NilVal]]]
    /\ UNCHANGED <<header, fields, dec, r, fptheader, fptr, recpointer, row, ret, rlog,
                   pc, scanned, probe, heap, held, disk, validFileVersionFunc, handles,
                   dbf_f, dbf_fptf, inst, olog>>

\* dbf.RecordAt(nrec) up to the field loop of bytesToRecord.
ConcRecordAt(p, nrec) ==
    /\ calls[p].pc = "idle"
    /\ \E rd \in {readRecord(nrec)}, c \in {[calls[p] EXCEPT !.nrec = nrec]} :
          calls' = [calls EXCEPT ![p] =
              IF rd.err # "nil" THEN Returned(c, NilRow, rd.err)
              ELSE IF Len(rd.buf) = 0 THEN Returned(c, NilRow, "panic")
              ELSE IF rd.buf[1] # FlagDeleted /\ rd.buf[1] # FlagActive
              THEN Returned(c, NilRow, "ErrInvalidRecordData")
              ELSE [c EXCEPT !.pc = "field", !.buf = rd.buf, !.i = 0, !.offset = 1,
                             !.deleted = rd.buf[1] = FlagDeleted,
                             !.vals = [i \in 1..NumFields |-> NilVal]]]
    /\ UNCHANGED <<header, fields, dec, r, fptheader, fptr, recpointer, row, ret, rlog,
                   pc, scanned, probe, heap, held, disk, validFileVersionFunc, handles,
                   dbf_f, dbf_fptf, inst, olog>>

\* One round of the field loop: the end of the loop, a field that is decoded
\* from the record's bytes alone, or the Seek of readFPT for a memo field.
ConcField(p) ==
    /\ calls[p].pc = "field"
    /\ \E c \in {calls[p]} :
          IF c.i >= Len(c.vals)
          THEN /\ calls' = [calls EXCEPT ![p] =
                       Returned(c, [nil |-> FALSE, Deleted |-> c.deleted, data |-> c.vals], "nil")]
               /\ fptr' = fptr
          ELSE IF c.offset + fields[c.i + 1].Len > Len(c.buf)
          THEN /\ calls' = [calls EXCEPT ![p] = Returned(c, NilRow, "panic")]
               /\ fptr' = fptr
          ELSE \E raw \in {SubSeq(c.buf, c.offset + 1, c.offset + fields[c.i + 1].Len)} :
               IF fields[c.i + 1].Type = "M" /\ fptr.present /\ Len(raw) >= 4
               THEN /\ fptr' = [fptr EXCEPT !.pos = fptheader.BlockSize * LEUint(raw, 4)]
                    /\ calls' = [calls EXCEPT ![p] = [c EXCEPT !.pc = "header"]]
               ELSE /\ fptr' = fptr
                    /\ \E v \in {fieldDataToValue(raw, c.i, fptr.pos)} :
                          calls' = [calls EXCEPT ![p] =
                              IF v.err = "panic" THEN Returned(c, NilRow, "panic")
                              ELSE IF v.err # "nil"
                              THEN Returned(c, [nil |-> FALSE, Deleted |-> c.deleted,
                                                data |-> c.vals], v.err)
                              ELSE [c EXCEPT !.i = c.i + 1,
                                             !.offset = c.offset + fields[c.i + 1].Len,
                                             !.vals[c.i + 1] = v.val]]
    /\ UNCHANGED <<header, fields, dec, r, fptheader, recpointer, row, ret, rlog,
                   pc, scanned, probe, heap, held, disk, validFileVersionFunc, handles,
                   dbf_f, dbf_fptf, inst, olog>>

\* dbf.fptr.Read(hbuf): the block header is read where the memo source is.
ConcHeader(p) ==
    /\ calls[p].pc = "header"
    /\ \E c \in {calls[p]}, h \in {FptRead(8, fptr.pos)} :
          /\ fptr' = [fptr EXCEPT !.pos = h.pos]
          /\ calls' = [calls EXCEPT ![p] =
                IF h.err # "nil"
                THEN Returned(c, [nil |-> FALSE, Deleted |-> c.deleted, data |-> c.vals], h.err)
                ELSE IF BEUint(SubSeq(h.buf, 5, 8), 4) = 0
                THEN MemoRead(c, <<>>, BEUint(SubSeq(h.buf, 1, 4), 4) = 1)
                ELSE [c EXCEPT !.pc = "payload",
                               !.sign = BEUint(SubSeq(h.buf, 1, 4), 4),
                               !.leng = BEUint(SubSeq(h.buf, 5, 8), 4)]]
    /\ UNCHANGED <<header, fields, dec, r, fptheader, recpointer, row, ret, rlog,
                   pc, scanned, probe, heap, held, disk, validFileVersionFunc, handles,
                   dbf_f, dbf_fptf, inst, olog>>

\* dbf.fptr.Read(buf): the payload is read where the memo source is. A
\* buffer longer than the memo source reads what a buffer one byte longer
\* than the source reads: all the bytes that are left.
ConcPayload(p) ==
    /\ calls[p].pc = "payload"
    /\ \E c \in {calls[p]},
          b \in {FptRead(Min(calls[p].leng, Len(fptr.data) + 1), fptr.pos)} :
          /\ fptr' = [fptr EXCEPT !.pos = b.pos]
          /\ calls' = [calls EXCEPT ![p] =
                IF b.err # "nil"
                THEN Returned(c, [nil |-> FALSE, Deleted |-> c.deleted, data |-> c.vals], b.err)
                ELSE IF b.n # c.leng
                THEN Returned(c, [nil |-> FALSE, Deleted |-> c.deleted, data |-> c.vals],
                              "ErrIncomplete")
                ELSE MemoRead(c, b.buf, c.sign = 1)]
    /\ UNCHANGED <<header, fields, dec, r, fptheader, recpointer, row, ret, rlog,
                   pc, scanned, probe, heap, held, disk, validFileVersionFunc, handles,
                   dbf_f, dbf_fptf, inst, olog>>

ConcNext ==
    \E p \in Procs :
        \/ \E nrec \in RecnoArgs : ConcRecordAt(p, nrec)
        \/ ConcField(p)
        \/ ConcHeader(p)
        \/ ConcPayload(p)

SpecConc == Init /\ [][ConcNext]_vars

\* ------------------------------------------------------------ header sizes
\* DBFHeader.FileSize: 296 + int64(h.NumFields()*32) + int64(h.NumRec*uint32(h.RecLen)),
\* the first product in uint16 arithmetic, the second in uint32 arithmetic.
\* A uint32 is half a word wide, a uint16 (RecLen) a quarter.
DBFHeader_FileSize(h) ==
    HeaderBase + ((DBFHeader_NumFields(h) * DescLen) % Pow2(16))
               + ((h.NumRec * h.RecLen) % Pow2(4 * WordLen))

\* A header of any record count, of the record lengths 0, 1, 2 and the
\* largest, and of 0 to 2 fields, as dbf.Header() hands it out.
HeaderInit ==
    /\ \E n \in 0..(Pow2(4 * WordLen) - 1), l \in {0, 1, 2, Pow2(2 * WordLen) - 1}, k \in 0..2 :
          header = [NilHeader EXCEPT !.FileVersion = 48, !.NumRec = n, !.RecLen = l,
                                     !.FirstRec = HeaderBase + DescLen * k]
    /\ fields = NilDBF.fields
    /\ dec = NilDBF.dec
    /\ r = NilDBF.r
    /\ fptheader = NilDBF.fptheader
    /\ fptr = NilDBF.fptr
    /\ recpointer = NilDBF.recpointer
    /\ row = NilRow
    /\ ret = NoRet
    /\ rlog = <<>>
    /\ pc = "api"
    /\ scanned = <<>>
    /\ probe = NoProbe
    /\ heap = <<>>
    /\ held = NoHeld
    /\ StreamEnv

\* dbf.Header().FileSize()
DoFileSize ==
    /\ Callable
    /\ ret' = [Ret("FileSize", <<>>, "nil") EXCEPT !.val = Val("int64", <<DBFHeader_FileSize(header)>>)]
    /\ UNCHANGED <<header, fields, dec, r, fptheader, fptr, recpointer, row, rlog, pc,
                   scanned, aux>>

SpecHeader == HeaderInit /\ [][DoFileSize]_vars

\* Julian day numbers around the years 0 and 9999, milliseconds below and
\* above a day, and date texts with and without a thirteenth month.
TimeInputs ==
    [jul |-> <<0, 1721059, 1721060, 2453738, 5373484, 5373485, 16777215>>,
     msec |-> <<0, 1000, 86399999, 86400000, 2147483647>>,
     day |-> << <<50, 48, 48, 54, 48, 49, 48, 50>>, <<50, 48, 48, 54, 49, 51, 48, 50>>,
                <<32, 32, 32, 32, 32, 32, 32, 32>> >>]
JulDays == TimeInputs.jul
MSecs == TimeInputs.msec
DayTexts == TimeInputs.day

\* The i-th word of n bytes over the smallest, the largest and the middle
\* bytes.
RECURSIVE CurrText(_, _)
CurrText(i, n) ==
    IF n = 0 THEN <<>>
    ELSE << <<0, 1, 127, 128, 255>>[(i % 5) + 1] >> \o CurrText(i \div 5, n - 1)

\* A table with a T field of 8 bytes, a D field and a T field of 4 bytes,
\* one file for every combination of day number, milliseconds and date text;
\* and a table with a currency (Y) field of one word, one file for every
\* word.
TimeSetups ==
    << [fields |-> << FieldHeader("STAMP", "T", 1, 8, 0),
                      FieldHeader("DAY", "D", 9, 8, 0),
                      FieldHeader("SHORT", "T", 17, 4, 0) >>,
        decs |-> {"UTF8Decoder"},
        memo |-> {FALSE},
        files |-> [i \in 1..(Len(JulDays) * Len(MSecs) * Len(DayTexts)) |->
                      [recs |-> << <<32>>
                                   \o LEBytes(JulDays[((i - 1) % Len(JulDays)) + 1], 4)
                                   \o LEBytes(MSecs[(((i - 1) \div Len(JulDays)) % Len(MSecs)) + 1], 4)
                                   \o DayTexts[((i - 1) \div (Len(JulDays) * Len(MSecs))) + 1]
                                   \o LEBytes(JulDays[((i - 1) % Len(JulDays)) + 1], 4) >>,
                       short |-> 0]]],
       [fields |-> << FieldHeader("CURR", "Y", 1, WordLen, 0) >>,
        decs |-> {"UTF8Decoder"},
        memo |-> {FALSE},
        files |-> [i \in 1..(5 ^ WordLen) |->
                      [recs |-> << <<32>> \o CurrText(i - 1, WordLen) >>, short |-> 0]]] >>

NumLen == 3
NumBytes == <<32, 45, 46, 48, 52, 120>>

\* The i-th text of n bytes over NumBytes.
RECURSIVE NumText(_, _)
NumText(i, n) ==
    IF n = 0 THEN <<>>
    ELSE <<NumBytes[(i % Len(NumBytes)) + 1]>> \o NumText(i \div Len(NumBytes), n - 1)

\* A table whose three fields lie over the same bytes of the record: N with
\* 2 decimals, F, and N without decimals; one file for every text.
NumSetups ==
    << [fields |-> << FieldHeader("NUM", "N", 1, NumLen, 2),
                      FieldHeader("FLT", "F", 1, NumLen, 0),
                      FieldHeader("INT", "N", 1, NumLen, 0) >>,
        decs |-> {"UTF8Decoder"},
        memo |-> {FALSE},
        files |-> [i \in 1..(Len(NumBytes) ^ NumLen) |->
                      [recs |-> << <<32>> \o NumText(i - 1, NumLen)
                                       \o [j \in 1..(2 * NumLen) |-> 32] >>,
                       short |-> 0]]] >>

NumInit ==
    /\ TableOf(NumSetups, MemoFile)
    /\ row = NilRow
    /\ ret = NoRet
    /\ rlog = <<>>
    /\ pc = "api"
    /\ scanned = <<>>
    /\ probe = NoProbe
    /\ heap = <<>>
    /\ held = NoHeld
    /\ StreamEnv

\* dbf.Field(fieldpos) with the cursor on the first record; the caller notes
\* what its first call was given.
NumField(fieldpos) ==
    /\ Callable
    /\ \E x \in {Field(recpointer, fieldpos, fptr.pos)} :
          /\ ret' = [Ret("Field", <<fieldpos>>, x.err) EXCEPT !.val = x.val]
          /\ fptr' = [fptr EXCEPT !.pos = x.pos]
          /\ rlog' = x.log
          /\ probe' = IF probe.op # "none" THEN probe
                      ELSE [op |-> "Field", n |-> fieldpos, p0 |-> recpointer,
                            err |-> x.err,
                            row |-> [nil |-> FALSE, Deleted |-> FALSE, data |-> <<x.val>>],
                            b |-> FALSE]
    /\ UNCHANGED <<header, fields, dec, r, fptheader, recpointer, row, pc, scanned,
                   heap, held, env>>



NumNext == \E fieldpos \in 0..(NumFields - 1) : NumField(fieldpos)

SpecNum == NumInit /\ [][NumNext]_vars

TimeInit ==
    /\ TableOf(TimeSetups, MemoFile)
    /\ row = NilRow
    /\ ret = NoRet
    /\ rlog = <<>>
    /\ pc = "api"
    /\ scanned = <<>>
    /\ probe = NoProbe
    /\ heap = <<>>
    /\ held = NoHeld
    /\ StreamEnv

SpecTime == TimeInit /\ [][NumNext]_vars

\* ------------------------------------------------- the README scan loop
\* for !dbf.EOF() { record, err := dbf.Record(); if err != nil { return err };
\*                  dbf.Skip(1); ... }
ScanInit ==
    /\ TableInit
    /\ row = NilRow
    /\ ret = NoRet
    /\ rlog = <<>>
    /\ pc = "test"
    /\ scanned = <<>>
    /\ probe = NoProbe
    /\ heap = <<>>
    /\ held = NoHeld
    /\ StreamEnv

\* The loop condition.
ScanTest ==
    /\ pc = "test"
    /\ pc' = IF EOF THEN "done" ELSE "record"
    /\ UNCHANGED <<header, fields, dec, r, fptheader, fptr, recpointer, row, ret,
                   rlog, scanned, aux>>

\* record, err := dbf.Record(); an error (or a panic) leaves the loop.
ScanRecord ==
    /\ pc = "record"
    /\ \E x \in {RecordAt(recpointer, fptr.pos)} :
          /\ ret' = [Ret("Record", <<>>, x.err) EXCEPT !.row = x.row]
          /\ row' = x.row
          /\ fptr' = [fptr EXCEPT !.pos = x.pos]
          /\ rlog' = x.log
          /\ pc' = IF x.err = "nil" THEN "skip" ELSE "failed"
          /\ scanned' = IF x.err = "nil" THEN Append(scanned, recpointer) ELSE scanned
    /\ UNCHANGED <<header, fields, dec, r, fptheader, recpointer, aux>>

\* dbf.Skip(1); its error is not looked at.
ScanSkip ==
    /\ pc = "skip"
    /\ \E g \in {Skip(1)} :
          /\ recpointer' = g.recpointer
          /\ ret' = Ret("Skip", <<1>>, g.err)
    /\ rlog' = <<>>
    /\ pc' = "test"
    /\ UNCHANGED <<header, fields, dec, r, fptheader, fptr, row, scanned, aux>>

ScanNext == ScanTest \/ ScanRecord \/ ScanSkip

\* The loop runs in one goroutine that keeps executing until it returns.
SpecScan == ScanInit /\ [][ScanNext]_vars /\ WF_vars(ScanNext)

\* ------------------------------------------------------------------ claims
\* The record number a Record / RecordAt call was about.
RecnoOf(x) == IF x.op = "Record" THEN x.p0 ELSE x.args[1]

\* The first byte of record n in the byte source, or -1 when the source ends
\* before it.
FlagByte(n) ==
    IF (n * header.RecLen) + 1 <= Len(r.data) THEN r.data[(n * header.RecLen) + 1]
    ELSE 0 - 1

\* C1: GoTo(n) with n >= NumRecords sets the cursor to NumRecords and returns
\* ErrEOF; with n < NumRecords it sets the cursor to n and returns nil, so
\* GoTo(0) on a non-empty table succeeds and BOF() holds afterwards.
C1_GoTo ==
    ret.op = "GoTo" =>
        LET n == ret.args[1]
        IN /\ n >= NumRecords => (recpointer = NumRecords /\ ret.err = "ErrEOF")
           /\ n < NumRecords => (recpointer = n /\ ret.err = "nil")
           /\ (n = 0 /\ NumRecords > 0) => (ret.err = "nil" /\ BOF)

C1_Witness ==
    /\ ret.op = "GoTo"
    /\ NumRecords > 0
    /\ ret.args[1] = NumRecords
    /\ ret.p0 < NumRecords
    /\ ret.err = "ErrEOF"

\* C2: Skip(offset) from cursor p: p+offset >= NumRecords gives cursor
\* NumRecords and ErrEOF; p+offset < 0 gives cursor 0 and ErrBOF; otherwise the
\* cursor is p+offset and the error nil.
C2_Skip ==
    ret.op = "Skip" =>
        LET sum == ret.p0 + ret.args[1]
        IN /\ sum >= NumRecords => (recpointer = NumRecords /\ ret.err = "ErrEOF")
           /\ sum < 0 => (recpointer = 0 /\ ret.err = "ErrBOF")
           /\ (sum >= 0 /\ sum < NumRecords) => (recpointer = sum /\ ret.err = "nil")

C2_Witness ==
    /\ ret.op = "Skip"
    /\ ret.args[1] = Int64Max
    /\ ret.p0 > 0
    /\ ret.err = "ErrBOF"
    /\ recpointer = 0

\* C3: the cursor is 0 right after the open and stays within 0..NumRecords
\* after any sequence of calls, failing ones included.
C3_CursorRange ==
    /\ ret.op = "open" => recpointer = 0
    /\ recpointer >= 0
    /\ recpointer <= NumRecords

C3_Witness ==
    /\ ret.op \in {"RecordToMap", "RecordToJSON"}
    /\ ret.args[1] > NumRecords
    /\ NumRecords > 0
    /\ ret.err = "ErrEOF"
    /\ recpointer = NumRecords

\* C4: EOF() is true exactly when cursor >= NumRecords and BOF() exactly when
\* cursor = 0; on an empty table both are true after the open, on a non-empty
\* table they are never true together.
C4_EOFBOF ==
    /\ ret.op = "EOF" => (ret.b <=> recpointer >= NumRecords)
    /\ ret.op = "BOF" => (ret.b <=> recpointer = 0)
    /\ EOF <=> recpointer >= NumRecords
    /\ (ret.op = "open" /\ NumRecords = 0) => (EOF /\ BOF)
    /\ NumRecords > 0 => ~(EOF /\ BOF)

C4_Witness ==
    /\ ret.op = "EOF"
    /\ ret.b
    /\ NumRecords > 0
    /\ recpointer = NumRecords

\* Every record of the table decodes without error.
AllDecode == \A n \in 0..(NumRecords - 1) : RecordAt(n, 0).err = "nil"

\* C5: on a table whose records all decode, the scan loop started at 0 ends;
\* it has then read records 0..NumRecords-1, once each and in order, in
\* NumRecords iterations, EOF() is true and the last Skip(1) returned ErrEOF.
C5_Scan ==
    AllDecode =>
        /\ <>(pc = "done")
        /\ [](pc = "done" =>
                /\ scanned = [i \in 1..NumRecords |-> i - 1]
                /\ EOF
                /\ NumRecords > 0 => (ret.op = "Skip" /\ ret.err = "ErrEOF"))

C5_Witness ==
    /\ pc = "done"
    /\ AllDecode
    /\ NumRecords = MaxRec
    /\ Len(scanned) = MaxRec
    /\ ret.err = "ErrEOF"

\* C6: Record() with the cursor at NumRecords, and RecordAt(n), DeletedAt(n)
\* with n >= NumRecords, return ErrEOF with no Row / false and read nothing
\* from the byte source.
C6_EOFNoRead ==
    (\/ ret.op = "Record" /\ ret.p0 = NumRecords
     \/ ret.op \in {"RecordAt", "DeletedAt"} /\ ret.args[1] >= NumRecords)
    => /\ ret.err = "ErrEOF"
       /\ ret.row.nil
       /\ ~ret.b
       /\ rlog = <<>>

C6_Witness ==
    /\ ret.op = "RecordAt"
    /\ NumRecords > 0
    /\ ret.args[1] = NumRecords
    /\ ret.err = "ErrEOF"
    /\ rlog = <<>>

\* C7: with the cursor on a valid record, Field(fieldpos) returns
\* ErrInvalidField for every fieldpos outside 0..NumFields-1, before any read,
\* and never panics.
C7_FieldRange ==
    (/\ ret.op = "Field"
     /\ ret.p0 < NumRecords
     /\ (ret.args[1] < 0 \/ ret.args[1] >= NumFields))
    => (ret.err = "ErrInvalidField" /\ rlog = <<>>)

C7_Witness ==
    /\ ret.op = "Field"
    /\ ret.p0 < NumRecords
    /\ NumFields > 0
    /\ ret.args[1] = NumFields
    /\ ret.err = "panic"

\* C8: Record.Field(pos) on a Row of k values returns the value at pos for
\* 0 <= pos < k and ErrInvalidField for every other pos, pos = k and the -1 of an
\* unknown field name included.
C8_RecordField ==
    ret.op \in {"Record.Field", "Record.FieldByName"} =>
        LET pos == ret.args[1]
            k == Len(row.data)
        IN IF pos >= 0 /\ pos < k
           THEN ret.err = "nil" /\ ret.val = row.data[pos + 1]
           ELSE ret.err = "ErrInvalidField"

C8_Witness ==
    /\ ret.op = "Record.Field"
    /\ ~row.nil
    /\ Len(row.data) > 0
    /\ ret.args[1] = Len(row.data)
    /\ ret.err = "panic"

\* C9: Record() / RecordAt(n) succeed only on a first byte 0x20 or 0x2A, the
\* Row then has Deleted = (byte = 0x2A) and NumFields values; on any other
\* first byte they return an error and no Row.
C9_DeleteFlag ==
    ret.op \in {"Record", "RecordAt"} =>
        LET n == RecnoOf(ret)
        IN /\ ret.err = "nil" =>
                /\ n < NumRecords
                /\ FlagByte(n) \in {32, 42}
                /\ ~ret.row.nil
                /\ ret.row.Deleted <=> FlagByte(n) = 42
                /\ Len(ret.row.data) = NumFields
           /\ (n < NumRecords /\ FlagByte(n) \notin {32, 42}) =>
                (ret.err # "nil" /\ ret.row.nil)

C9_Witness ==
    /\ ret.op = "RecordAt"
    /\ ret.err = "nil"
    /\ ret.row.Deleted
    /\ NumFields = 2
    /\ Len(ret.row.data) = 2

\* Some field of record n fails to decode (the record itself is read whole and
\* its delete flag is legal).
FieldDecodeFails(n) ==
    LET rd == readRecord(n)
    IN /\ rd.err = "nil"
       /\ rd.buf[1] \in {FlagActive, FlagDeleted}
       /\ \E i \in 1..NumFields :
              fieldDataToValue(SubSeq(rd.buf, fields[i].Pos + 1,
                                      fields[i].Pos + fields[i].Len),
                               i - 1, fptr.pos).err # "nil"

\* C10: when the decoding of a field fails, Record() / RecordAt(n) return the
\* error and no Row; a partly filled Row is never returned.
C10_NoPartialRow ==
    (ret.op \in {"Record", "RecordAt"} /\ FieldDecodeFails(RecnoOf(ret)))
    => (ret.err # "nil" /\ ret.row.nil)

C10_Witness ==
    /\ ret.op = "Record"
    /\ FieldDecodeFails(ret.p0)
    /\ ret.err # "nil"
    /\ ~ret.row.nil
    /\ ret.row.data[1] # NilVal
    /\ ret.row.data[2] = NilVal

\* The record number a Deleted / DeletedAt call was about.
DeletedRecno(x) == IF x.op = "Deleted" THEN x.p0 ELSE x.args[1]

\* C11: DeletedAt(n) with n < NumRecords makes one read, of one byte, at
\* offset FirstRec + n*RecLen; when the source holds that byte the call
\* returns no error and true exactly for the byte 0x2A (false for every other
\* byte, the illegal flags included).  Deleted() is DeletedAt(cursor).
C11_DeletedAt ==
    ret.op \in {"Deleted", "DeletedAt"} =>
        /\ ret.op = "Deleted" =>
              /\ recpointer = ret.p0
              /\ ret.b = DeletedAt(ret.p0).b
              /\ ret.err = DeletedAt(ret.p0).err
        /\ DeletedRecno(ret) < NumRecords =>
              /\ rlog = << <<header.FirstRec + (DeletedRecno(ret) * header.RecLen), 1>> >>
              /\ FlagByte(DeletedRecno(ret)) # 0 - 1 =>
                    /\ ret.err = "nil"
                    /\ ret.b <=> FlagByte(DeletedRecno(ret)) = 42

C11_Witness ==
    /\ ret.op = "DeletedAt"
    /\ ret.args[1] < NumRecords
    /\ ret.args[1] # recpointer
    /\ FlagByte(ret.args[1]) \notin {0 - 1, 32, 42}
    /\ ret.err = "nil"
    /\ ~ret.b
    /\ RecordAt(ret.args[1], fptr.pos).err = "ErrInvalidRecordData"

\* The record a RecordToMap / RecordToJSON call has to project.
ProjectedRecno(x) == IF x.args[1] > 0 THEN x.args[1] ELSE x.p0

\* The value a projection holds for a decoded field value.
Projected(x, v) ==
    IF x.op = "RecordToJSON" THEN JSONValue(v, x.args[2] = 1) ELSE v

\* C12: a RecordToMap(nrec) / RecordToJSON(nrec, trim) that succeeds
\* projects record nrec when nrec > 0 and the record under the cursor when
\* nrec = 0: the map has exactly the field names for keys, and under each name
\* the value RecordAt of that record holds at the field's position.  Wherever
\* RecordAt of that record succeeds, RecordToMap succeeds too.
C12_Projection ==
    ret.op \in {"RecordToMap", "RecordToJSON"} =>
        \A rec \in {RecordAt(ProjectedRecno(ret), fptr.pos)} :
            /\ (ret.err = "nil" /\ rec.err = "nil") =>
                  /\ ~ret.m.nil
                  /\ DOMAIN ret.m.kv = {fields[i].Name : i \in 1..NumFields}
                  /\ \A i \in 1..NumFields :
                        ret.m.kv[fields[i].Name] = Projected(ret, rec.row.data[i])
            /\ (ret.op = "RecordToMap" /\ rec.err = "nil") => ret.err = "nil"

C12_Witness ==
    /\ ret.op = "RecordToMap"
    /\ ret.args[1] = 1
    /\ ret.p0 = 0
    /\ ret.err = "nil"
    /\ NumFields = 2
    /\ RecordAt(1, fptr.pos).err = "nil"
    /\ RecordAt(0, fptr.pos).err = "nil"
    /\ RecordAt(1, fptr.pos).row.data # RecordAt(0, fptr.pos).row.data
    /\ ret.m.kv[fields[2].Name] = RecordAt(1, fptr.pos).row.data[2]

\* C13: RecordAt(n) and DeletedAt(n) leave the cursor where it was, whatever
\* n is and whether they fail or not, and give the caller what its first call
\* with the same n was given, wherever the cursor was then and is now.
C13_Frame ==
    ret.op \in {"RecordAt", "DeletedAt"} =>
        /\ recpointer = ret.p0
        /\ (probe.op = ret.op /\ probe.n = ret.args[1]) =>
              /\ ret.err = probe.err
              /\ ret.row = probe.row
              /\ ret.b = probe.b

C13_Witness ==
    /\ ret.op = "RecordAt"
    /\ probe.op = "RecordAt"
    /\ probe.n = ret.args[1]
    /\ probe.p0 # ret.p0
    /\ ret.p0 = NumRecords
    /\ ret.err = "nil"
    /\ ~ret.row.nil
    /\ ret.row = probe.row

\* C14: a *Record returned by Record / RecordAt is independent of the table
\* afterwards: whatever GoTo, Skip, Record, RecordAt, Field and RecordToMap
\* calls follow, its Deleted flag and its field values, the byte slices of V
\* and binary memo fields included, read as they did when it was returned.
C14_RowIndependent ==
    ~held.nil => RowOf(heap, held) = held.seen

\* A held row with a V value and a binary memo value, after a later RecordAt
\* that returned another record.
C14_Witness ==
    /\ ~held.nil
    /\ held.seen.data = <<Val("bytes", <<1, 2>>), Val("bytes", <<9, 8>>)>>
    /\ ret.op = "RecordAt"
    /\ ret.err = "nil"
    /\ ~ret.row.nil
    /\ ret.row.data[1] = Val("bytes", <<3, 4>>)
    /\ RowOf(heap, held) = held.seen

\* The table file on disk is complete.
CompleteFile == disk.cut = "none"

\* The version byte and the table flags of the table file on disk.
DiskVersion == disk.dbf[1]
DiskFlags == disk.dbf[29]

\* The offset of the first record according to the table file on disk.
DiskFirstRec == LEUint(SubSeq(disk.dbf, 9, 10), 2)

\* C15: OpenStream with a valid primary source and a nil memo source fails
\* with ErrNoFPTFile exactly when bit 0x02 of the header's TableFlags is set;
\* it fails at open time: no *DBF is returned and nothing at or behind the
\* first record was read. When the bit is clear the open succeeds without a
\* memo source.
C15_NoFPTFile ==
    (/\ ret.op = "OpenStream"
     /\ ret.args = <<0>>
     /\ CompleteFile
     /\ validFileVersionFunc = "validFileVersion"
     /\ DiskVersion \in {48, 49}) =>
        /\ (ret.err = "ErrNoFPTFile") <=> (DiskFlags \in {2, 3})
        /\ ret.err = "ErrNoFPTFile" =>
              /\ inst = "nil"
              /\ rlog = <<>>
              /\ \A i \in 1..Len(olog) : olog[i][1] + olog[i][2] <= DiskFirstRec
        /\ ret.err # "ErrNoFPTFile" =>
              /\ ret.err = "nil"
              /\ inst = "open"
              /\ ~fptr.present

\* OpenStream without a memo source was refused for a table with the memo
\* and the index flag set.
C15_Witness ==
    /\ ret.op = "OpenStream"
    /\ ret.args = <<0>>
    /\ CompleteFile
    /\ DiskVersion = 48
    /\ DiskFlags = 3
    /\ ret.err = "ErrNoFPTFile"
    /\ inst = "nil"
    /\ olog # <<>>

\* C16: with the default validation an open (OpenFile or OpenStream)
\* succeeds only for the file versions 0x30 and 0x31; every other version
\* byte gives an error and no *DBF, and the check comes after the read of
\* the table header and before any field descriptor is read: the header
\* read at offset 0 is the only read made.
C16_FileVersion ==
    (ret.op \in {"OpenStream", "OpenFile"}
       /\ validFileVersionFunc = "validFileVersion") =>
        /\ ret.err = "nil" => (DiskVersion \in {48, 49} /\ inst = "open")
        /\ ret.err # "nil" => inst = "nil"
        /\ (disk.cut # "header" /\ DiskVersion \notin {48, 49}) =>
              /\ ret.err = "ErrUntestedVersion"
              /\ inst = "nil"
              /\ olog = << <<0, HeaderSize>> >>

\* OpenFile refused a complete dBase III file (0x03) with two fields after
\* the header read.
C16_Witness ==
    /\ ret.op = "OpenFile"
    /\ validFileVersionFunc = "validFileVersion"
    /\ CompleteFile
    /\ DiskVersion = 3
    /\ Len(disk.dbf) > HeaderBase + 2 * DescLen
    /\ ret.err = "ErrUntestedVersion"
    /\ inst = "nil"
    /\ olog = << <<0, HeaderSize>> >>

\* The version check in force takes the version byte of the table file on
\* disk.
VersionTaken ==
    IF validFileVersionFunc = "validFileVersion" THEN DiskVersion \in {48, 49}
    ELSE DiskVersion = 3

\* What an open leaves to its caller.
Instance == <<header, fields, dec, r, fptheader, fptr, recpointer, dbf_f, dbf_fptf, inst>>

FailedCloses ==
    {handles[ret.args[i]].name :
        i \in {j \in 1..Len(ret.args) : handles[ret.args[j]].err # "nil"}}

ReportedCloses ==
    IF ret.err = "ErrClosingDBF" THEN {"dbf"}
    ELSE IF ret.err = "ErrClosingFPT" THEN {"fpt"} ELSE {}

\* C18: Close always tries to close both the table file handle and the memo
\* file handle, the memo file also when closing the table file failed, and
\* the error it returns tells of every close that failed, also when both
\* failed; on a table opened from streams it closes nothing and returns nil.
C18_Close ==
    ret.op = "Close" =>
        /\ ret.args = (IF dbf_f # 0 THEN <<dbf_f>> ELSE <<>>)
                          \o (IF dbf_fptf # 0 THEN <<dbf_fptf>> ELSE <<>>)
        /\ \A i \in 1..Len(ret.args) : ~handles[ret.args[i]].open
        /\ ReportedCloses = FailedCloses
        /\ (dbf_f = 0 /\ dbf_fptf = 0) => (ret.args = <<>> /\ ret.err = "nil")

\* Both closes failed and Close returned the error of the table file only.
C18_Witness ==
    /\ ret.op = "Close"
    /\ Len(ret.args) = 2
    /\ FailedCloses = {"dbf", "fpt"}
    /\ ret.err = "ErrClosingDBF"
    /\ ret.cause = "EIO"

\* The last call was Field on a memo field of a record of the table, with a
\* memo source attached.
MemoFieldRead ==
    /\ ret.op = "Field"
    /\ ret.p0 < NumRecords
    /\ ret.args[1] \in 0..(NumFields - 1)
    /\ fields[ret.args[1] + 1].Type = "M"
    /\ fptr.present

\* The offset in the memo file of the block that field refers to, and the
\* bytes of the memo file from there on, 8 at most.
MemoBlockOffset ==
    fptheader.BlockSize
        * LEUint(SubSeq(r.data, ret.p0 * header.RecLen + fields[ret.args[1] + 1].Pos + 1,
                        ret.p0 * header.RecLen + fields[ret.args[1] + 1].Pos + 4), 4)

MemoBlockHeader ==
    SubSeq(fptr.data, MemoBlockOffset + 1, Min(MemoBlockOffset + 8, Len(fptr.data)))

\* The block has a whole header, and it gives length 0.
ZeroLengthBlock ==
    /\ Len(MemoBlockHeader) = 8
    /\ BEUint(SubSeq(MemoBlockHeader, 5, 8), 4) = 0

\* C19 as stated: a memo field whose block header gives payload length 0
\* decodes to an empty text value with no error, whatever the signature of
\* the block, and no payload is read for it.
C19_ZeroLengthText ==
    (MemoFieldRead /\ ZeroLengthBlock) =>
        /\ ret.err = "nil"
        /\ ret.val = Val("string", <<>>)
        /\ fptr.pos = MemoBlockOffset + 8

\* C19, amended: a memo field whose block header gives payload length 0
\* decodes with no error to an empty value, text when the signature of the
\* block is 1 and a byte slice otherwise, and the memo source is left right
\* behind the 8-byte header: no payload is read for it.
C19_ZeroLength ==
    (MemoFieldRead /\ ZeroLengthBlock) =>
        /\ ret.err = "nil"
        /\ ret.val = (IF BEUint(SubSeq(MemoBlockHeader, 1, 4), 4) = 1
                      THEN Val("string", <<>>) ELSE Val("bytes", <<>>))
        /\ fptr.pos = MemoBlockOffset + 8

\* Field read a memo of length 0 whose block has signature 2.
C19_Witness ==
    /\ MemoFieldRead
    /\ ZeroLengthBlock
    /\ BEUint(SubSeq(MemoBlockHeader, 1, 4), 4) = 2
    /\ ret.err = "nil"
    /\ ret.val = Val("bytes", <<>>)

\* The bytes the memo file holds behind the header of the block.
MemoPayloadLeft == Len(fptr.data) - (MemoBlockOffset + 8)

\* The memo source delivers a part of the 8-byte block header, or a part of
\* the payload the header announces, and no error.
ShortHeader == Len(MemoBlockHeader) \in 1..7

ShortPayload ==
    /\ Len(MemoBlockHeader) = 8
    /\ MemoPayloadLeft \in 1..(BEUint(SubSeq(MemoBlockHeader, 5, 8), 4) - 1)

\* C20: resolving a memo block fails with ErrIncomplete whenever the memo
\* source delivers fewer bytes than asked for without an I/O error, for the
\* 8-byte block header as for the payload; a header read short is never
\* decoded as a whole header.
C20_Incomplete ==
    (MemoFieldRead /\ (ShortHeader \/ ShortPayload)) => ret.err = "ErrIncomplete"

\* Field resolved a memo block of which the file holds 2 header bytes: no
\* error, an empty byte slice.
C20_Witness ==
    /\ MemoFieldRead
    /\ ShortHeader
    /\ ret.err = "nil"
    /\ ret.val = Val("bytes", <<>>)

\* The bytes of the numeric fields of the record under the cursor.
NumRaw == SubSeq(r.data, ret.p0 * header.RecLen + 2, ret.p0 * header.RecLen + 1 + NumLen)

\* The text is blank, or an optional '-' and digits.
Blank(s) == \A i \in 1..Len(s) : s[i] = 32
IntText(s) ==
    /\ Len(s) > 0
    /\ Len(s) > (IF s[1] = 45 THEN 1 ELSE 0)
    /\ \A i \in 1..Len(s) : (s[i] >= 48 /\ s[i] <= 57) \/ (i = 1 /\ s[i] = 45)

\* The spaces before and behind the text of s.
Lead(s) == Len(s) - Len(TrimLeft(s))
Trail(s) == Len(s) - Len(TrimRight(s))

\* C21: a numeric (N) field without decimals decodes the text between its
\* leading and trailing spaces as a base-10 signed integer, an all-blank
\* field as integer 0 with no error, anything else that is not an integer
\* text with an error; with decimals it decodes as an F field does over the
\* same bytes, value and error alike, an all-blank field as 0.0.
C21_Numeric ==
    (ret.op = "Field" /\ ret.p0 < NumRecords) =>
        /\ (ret.args[1] = 2 /\ Blank(NumRaw)) =>
              (ret.err = "nil" /\ ret.val = Val("int64", <<0>>))
        /\ (ret.args[1] = 2 /\ ~Blank(NumRaw)) =>
              \E t \in {SubSeq(NumRaw, Lead(NumRaw) + 1, NumLen - Trail(NumRaw))} :
                 IF IntText(t)
                 THEN /\ ret.err = "nil"
                      /\ ret.val = Val("int64", <<SignOf(t) * DigitsValue(Unsigned(t))>>)
                 ELSE ret.err # "nil"
        /\ (ret.args[1] \in {0, 1} /\ Blank(NumRaw)) =>
              (ret.err = "nil" /\ ret.val = Val("float64", <<0, 0>>))
        /\ (probe.op = "Field" /\ probe.p0 = ret.p0
              /\ {probe.n, ret.args[1]} = {0, 1}) =>
              (ret.err = probe.err /\ ret.val = probe.row.data[1])

\* " -4" was decoded as the integer -4 after the same bytes were decoded as
\* a number with decimals.
C21_Witness ==
    /\ ret.op = "Field"
    /\ ret.p0 < NumRecords
    /\ NumRaw = <<32, 45, 52>>
    /\ ret.args[1] = 2
    /\ ret.val = Val("int64", <<0 - 4>>)
    /\ ret.err = "nil"
    /\ probe.op = "Field"
    /\ probe.n = 0
    /\ probe.row.data[1] = Val("float64", <<0 - 4, 0>>)

\* The bytes of the field the last call decoded, and the two integers of a
\* T field.
TimeRaw ==
    SubSeq(r.data, ret.p0 * header.RecLen + fields[ret.args[1] + 1].Pos + 1,
           ret.p0 * header.RecLen + fields[ret.args[1] + 1].Pos + fields[ret.args[1] + 1].Len)
TimeJul == LEUint(SubSeq(TimeRaw, 1, 4), 4)
TimeMSec == LEUint(SubSeq(TimeRaw, 5, 8), 4)
DayOfMSec == 24 * 60 * 60 * 1000
TimeCall == ret.op = "Field" /\ ret.p0 < NumRecords /\ header.RecLen = 21

C22_WitnessLate ==
    /\ TimeCall
    /\ ret.args[1] = 0
    /\ TimeJul = YMD2J(9999, 12, 31)
    /\ TimeMSec = DayOfMSec
    /\ ret.val = Val("time", <<10000, 1, 1, 0>>)

\* The stored word of the currency field the last call decoded, read as an
\* unsigned and as a two's-complement integer.
CurrCall ==
    /\ ret.op = "Field"
    /\ ret.p0 < NumRecords
    /\ fields[ret.args[1] + 1].Type = "Y"
CurrStored == LEUint(SubSeq(r.data, ret.p0 * header.RecLen + 2, ret.p0 * header.RecLen + 1 + WordLen), WordLen)
CurrSigned ==
    IF CurrStored >= Pow2(8 * WordLen - 1) THEN CurrStored - Pow2(8 * WordLen) ELSE CurrStored

\* C23: a currency (Y) field decodes to its stored little-endian word, read
\* as a two's-complement integer, divided by 10000: a word with the top bit
\* set gives a negative value, and the sign of the value is the sign of the
\* stored integer.
C23_Currency ==
    CurrCall =>
        /\ ret.err = "nil"
        /\ ret.val = Val("float64", Normalize(CurrSigned, 4))
        /\ (ret.val.val[1] < 0) <=> (CurrSigned < 0)

\* The word of all one bits, the amount -0.0001, was decoded as a positive
\* value.
C23_Witness ==
    /\ CurrCall
    /\ CurrSigned = 0 - 1
    /\ ret.err = "nil"
    /\ ret.val.kind = "float64"
    /\ ret.val.val[1] > 0

\* A word without the top bit was decoded as the stored amount.
C23_Positive ==
    /\ CurrCall
    /\ CurrSigned = 256 + 127
    /\ ret.val = Val("float64", <<383, 4>>)

\* The descriptors of the table file on the disk, counted up to the
\* terminator.
RECURSIVE DiskDescs(_)
DiskDescs(n) ==
    IF DescStart + DescLen * n + 1 > Len(disk.dbf) THEN 0 - 1
    ELSE IF disk.dbf[DescStart + DescLen * n + 1] = Terminator THEN n
    ELSE DiskDescs(n + 1)

\* C24: on every table that opened, whose file holds k descriptors before
\* the terminator and FirstRec = 296 + 32 * k, the field count computed from
\* the header, (FirstRec - 296) / 32 in 16-bit arithmetic, is the number of
\* descriptors the open parsed, and both are k.
C24_NumFields ==
    (inst = "open" /\ DiskFirstRec = HeaderBase + DescLen * DiskDescs(0)) =>
        /\ DBFHeader_NumFields(header) = NumFields
        /\ NumFields = DiskDescs(0)

\* A file of two descriptors was opened: both counts are 2.
C24_Witness ==
    /\ inst = "open"
    /\ ret.err = "nil"
    /\ DiskDescs(0) = 2
    /\ DiskFirstRec = HeaderBase + DescLen * 2
    /\ DBFHeader_NumFields(header) = 2
    /\ NumFields = 2

\* C25: FileSize() is 296 + 32 * NumFields + NumRec * RecLen, the length of
\* a well-formed file, for every record count and record length the header
\* can hold, also when NumRec * RecLen does not fit 32 bits.
C25_FileSize ==
    ret.op = "FileSize" =>
        ret.val = Val("int64", <<HeaderBase + DescLen * DBFHeader_NumFields(header)
                                  + header.NumRec * header.RecLen>>)

\* The largest record count with the largest record length: the size
\* returned is the product cut to 32 bits, smaller than the records take.
C25_Witness ==
    /\ ret.op = "FileSize"
    /\ header.NumRec = Pow2(4 * WordLen) - 1
    /\ header.RecLen = Pow2(2 * WordLen) - 1
    /\ header.FirstRec = HeaderBase + DescLen
    /\ ret.val.val[1] < header.NumRec * header.RecLen

\* A product that fits 32 bits: the size returned is the length of the file.
C25_Fits ==
    /\ ret.op = "FileSize"
    /\ header.NumRec = 3
    /\ header.RecLen = 2
    /\ header.FirstRec = HeaderBase + 2 * DescLen
    /\ ret.val = Val("int64", <<HeaderBase + 2 * DescLen + 6>>)

\* The last call was Field(i) for a field of the table with the cursor on a
\* record; the whole record under that cursor as RecordAt reads it.
FieldCall ==
    /\ ret.op = "Field"
    /\ ret.p0 < NumRecords
    /\ ret.args[1] \in 0..(NumFields - 1)
WholeRecord == RecordAt(ret.p0, fptr.pos)

\* C26 as stated: with the cursor at n < NumRecords, Field(i) returns the
\* value and the error of RecordAt(n).Field(i) for every field i, and
\* Record() returns the Row of RecordAt(n).
C26_FieldByField ==
    /\ FieldCall =>
          /\ ret.err = WholeRecord.err
          /\ ret.err = "nil" => ret.val = WholeRecord.row.data[ret.args[1] + 1]
    /\ (ret.op = "Record" /\ ret.p0 < NumRecords) =>
          (ret.err = WholeRecord.err /\ ret.row = WholeRecord.row)

\* C26, amended: whenever RecordAt(n) succeeds, Field(i) succeeds with the
\* value RecordAt(n).Field(i) has; whenever Field(i) fails, RecordAt(n)
\* fails; Record() returns the Row and the error of RecordAt(n).
C26_Agree ==
    /\ FieldCall =>
          /\ WholeRecord.err = "nil" =>
                (ret.err = "nil" /\ ret.val = WholeRecord.row.data[ret.args[1] + 1])
          /\ ret.err # "nil" => WholeRecord.err # "nil"
    /\ (ret.op = "Record" /\ ret.p0 < NumRecords) =>
          (ret.err = WholeRecord.err /\ ret.row = WholeRecord.row)

\* The memo field of a record was read by Field and is the text the whole
\* record holds.
C26_Witness ==
    /\ FieldCall
    /\ fields[ret.args[1] + 1].Type = "M"
    /\ ret.err = "nil"
    /\ ret.val.kind = "string"
    /\ WholeRecord.err = "nil"
    /\ ret.val = WholeRecord.row.data[ret.args[1] + 1]

\* Field read the logical field of a record whose other field has an
\* unsupported type: RecordAt fails on that record.
C26_OtherFieldFails ==
    /\ FieldCall
    /\ fields[ret.args[1] + 1].Type = "L"
    /\ ret.err = "nil"
    /\ WholeRecord.err = "ErrUnsupportedFieldtype"

\* The last call was a projection.
MapCall == ret.op \in {"RecordToMap", "RecordToJSON"}

\* C27 as stated: after RecordToMap(nrec) / RecordToJSON(nrec, trim) with
\* 0 < nrec < NumRecords the cursor is nrec; after a call with
\* nrec >= NumRecords the call has failed with ErrEOF and the cursor is
\* NumRecords; a call with nrec = 0 leaves the cursor where it was.
C27_CursorEffect ==
    MapCall =>
        /\ (0 < ret.args[1] /\ ret.args[1] < NumRecords) => recpointer = ret.args[1]
        /\ ret.args[1] >= NumRecords => (ret.err = "ErrEOF" /\ recpointer = NumRecords)
        /\ ret.args[1] = 0 => recpointer = ret.p0

\* C27, amended: the failure with ErrEOF comes from the move of the cursor,
\* which is made only when nrec is not 0 and not the cursor; a call with nrec
\* = 0 or nrec = cursor leaves the cursor where it was, and with the cursor
\* at NumRecords it fails with the error of the first field, which wraps
\* ErrEOF, or succeeds with an empty map on a table without fields.
C27_Cursor ==
    MapCall =>
        /\ (0 < ret.args[1] /\ ret.args[1] < NumRecords) => recpointer = ret.args[1]
        /\ (ret.args[1] >= NumRecords /\ ret.args[1] # ret.p0) =>
              (ret.err = "ErrEOF" /\ recpointer = NumRecords)
        /\ (ret.args[1] = 0 \/ ret.args[1] = ret.p0) => recpointer = ret.p0
        /\ (ret.p0 = NumRecords /\ ret.args[1] \in {0, ret.p0}) =>
              /\ ret.err # "ErrEOF"
              /\ NumFields > 0 => (ret.err = "ErrOnField" /\ ret.cause = "ErrEOF")
              /\ NumFields = 0 =>
                    (ret.err = "nil" /\ (ret.op = "RecordToMap" => ret.m.kv = <<>>))

\* RecordToMap(NumRecords) with the cursor at NumRecords failed with the
\* error of the first field and not with ErrEOF.
C27_Witness ==
    /\ ret.op = "RecordToMap"
    /\ NumRecords = 2
    /\ ret.args[1] = 2
    /\ ret.p0 = 2
    /\ recpointer = 2
    /\ ret.err = "ErrOnField"
    /\ ret.cause = "ErrEOF"

\* RecordToJSON(1, trim) from the cursor 0 left the cursor at 1, and
\* RecordToMap past the end failed with ErrEOF and left it at NumRecords.
C27_Moved ==
    \/ /\ ret.op = "RecordToJSON" /\ ret.args[1] = 1 /\ ret.p0 = 0 /\ NumRecords = 2
       /\ recpointer = 1 /\ ret.err = "nil"
    \/ /\ ret.op = "RecordToMap" /\ ret.args[1] = 3 /\ ret.p0 = 0 /\ NumRecords = 2
       /\ recpointer = 2 /\ ret.err = "ErrEOF"

\* C28: Skip(offset) with offset >= 0, for every offset of the int64 range
\* and every cursor, returns nil or ErrEOF, never ErrBOF, and never leaves
\* the cursor lower than it was: cursor + offset does not wrap around.
C28_SkipForward ==
    (ret.op = "Skip" /\ ret.args[1] >= 0) =>
        /\ ret.err \in {"nil", "ErrEOF"}
        /\ recpointer >= ret.p0

\* Skip of the largest offset from the end of the table: the sum wrapped
\* around, the call returned ErrBOF and the cursor fell back.
C28_Witness ==
    /\ ret.op = "Skip"
    /\ ret.args[1] >= 0
    /\ ret.p0 + ret.args[1] > Int64Max
    /\ ret.p0 = NumRecords
    /\ recpointer < ret.p0
    /\ ret.err # "ErrEOF"

\* Skip of the largest offset from the cursor 0, where the sum does not
\* wrap: ErrEOF, the cursor at NumRecords.
C28_NoWrap ==
    /\ ret.op = "Skip"
    /\ ret.args[1] = Int64Max
    /\ ret.p0 = 0
    /\ NumRecords > 0
    /\ recpointer = NumRecords
    /\ ret.err = "ErrEOF"

\* The handles the last OpenFile opened: the primary file and, behind it,
\* the memo file if it came to be opened.
OpenedByCall ==
    IF handles[Len(handles)].name = "fpt" THEN {Len(handles) - 1, Len(handles)}
    ELSE {Len(handles)}

\* C29: when OpenFile returns an error, no file handle opened during the
\* call is still open: the primary file, and the memo file if it was opened,
\* have been closed before the error is returned.
C29_NoLeak ==
    (ret.op = "OpenFile" /\ ret.err # "nil") =>
        /\ inst = "nil"
        /\ \A h \in OpenedByCall : ~handles[h].open

\* OpenFile failed for the missing memo file, and the handle of the primary
\* file, which the caller was not given, is open.
C29_Witness ==
    /\ ret.op = "OpenFile"
    /\ ret.err = "os.ErrNotExist"
    /\ inst = "nil"
    /\ dbf_f = 0
    /\ handles[Len(handles)].name = "dbf"
    /\ handles[Len(handles)].open

\* OpenFile failed on the memo file it had opened: both handles are open.
C29_Both ==
    /\ ret.op = "OpenFile"
    /\ ret.err # "nil"
    /\ handles[Len(handles)].name = "fpt"
    /\ \A h \in OpenedByCall : handles[h].open

\* The goroutine p has its Row, and what the same call returns when it runs
\* alone.
Finished(p) == calls[p].pc = "done"
Alone(p) == RecordAt(calls[p].nrec, 0)
HasMemoField == \E i \in 1..NumFields : fields[i].Type = "M"

\* C30 as stated: two RecordAt calls that run concurrently on one table each
\* return the Row and the error they return alone, in every interleaving of
\* their steps, records with memo fields included.
C30_Concurrent ==
    \A p \in Procs :
        Finished(p) => (calls[p].row = Alone(p).row /\ calls[p].err = Alone(p).err)

\* C30, amended: on a table without memo fields, or without a memo source,
\* two concurrent RecordAt calls each return the Row and the error they
\* return alone, in every interleaving of their steps.
C30_NoMemo ==
    (~HasMemoField \/ ~fptr.present) =>
        \A p \in Procs :
            Finished(p) => (calls[p].row = Alone(p).row /\ calls[p].err = Alone(p).err)

\* Both calls have returned their different records of a table of text and
\* number fields, each the Row it returns alone.
C30_Witness ==
    /\ ~HasMemoField
    /\ NumFields = 2
    /\ \A p \in Procs : Finished(p) /\ calls[p].err = "nil" /\ calls[p].row = Alone(p).row
    /\ calls[1].nrec # calls[2].nrec
    /\ calls[1].row # calls[2].row

\* A call on a record with a memo field returned a memo that is not the one
\* it returns alone: the other call moved the memo source between its Seek
\* and its Read.
C30_MemoMixed ==
    /\ HasMemoField
    /\ fptr.present
    /\ \E p \in Procs :
          /\ Finished(p)
          /\ calls[p].err = "nil"
          /\ Alone(p).err = "nil"
          /\ calls[p].row # Alone(p).row

====
